---- MODULE Spec2Model ----
(***************************************************************************)
(* Verification model of nosshtradamus: the SSH proxy fabric               *)
(* (internal/sshproxy), the channel filter of cmd/nosshtradamus/main.go,   *)
(* the epoch tracker (Epochal), the ring delay shim (RingDelayer) and the  *)
(* predictive interposer (Interposer).                                     *)
(*                                                                         *)
(* These specifications share the module:                                  *)
(*   SpecChan  - one forwarded channel pair: the client-to-server copy,    *)
(*               the IoSwitch and the client request filter;               *)
(*   SpecEpoch - Epochal.Write called by the sink drainer and by the       *)
(*               upstream pump, the per-epoch ping and pong goroutines,    *)
(*               the ring delay worker and the pump's framebuffer commit;  *)
(*   SpecRead  - Interposer.Read / Close / Write and the carry-over        *)
(*               buffer, byte by byte.                                     *)
(*   SpecAsynk - the asynchronous sink writer: Write, the drainer, Close   *)
(*               (SpecAsynkFair: the same with fair scheduling);           *)
(*   SpecReq   - the request path of a session channel with prediction;    *)
(*   SpecProxy - RunProxy for one client: the keyboard-interactive         *)
(*               callback, the target dial and the auth-agent channels;    *)
(*   SpecCodec - the window-change payload: Serialize and its parser;      *)
(*   SpecSwitch - the IoSwitch: Enable and the calls racing with it;       *)
(*   SpecRing  - the RingDelayer: concurrent writers, the worker, Close    *)
(*               (SpecRingFair: writers and worker fairly scheduled);      *)
(*   SpecPumpFair - Read in a loop and the pump, fairly scheduled;         *)
(*   SpecSticky - Interposer.Write into the sink after a pump error;       *)
(*   SpecLock  - the emulator mutex and the calls on the predictor;        *)
(*   SpecDrain - the end of the client-to-server copy over the sink;       *)
(*   SpecTeardown - the four activities of a channel pair closing it.      *)
(* Each action leaves the variables of the other parts untouched.          *)
(***************************************************************************)
EXTENDS Integers, Sequences, FiniteSets, TLC

VARIABLES
    \* ---- SpecChan: configuration (command line flags, channel type)
    noPrediction, fakeDelay, chanType,
    \* ---- SpecChan: client-to-server copy activity (io.Copy)
    clientSent, clientEOF, readPos, copyBuf, copyPc,
    \* ---- SpecChan: server-side channel
    proxyChanData, proxyChanReqs,
    \* ---- SpecChan: IoSwitch and the request filter's closure variables
    enabled, activated, ptySeen,
    \* ---- SpecChan: request streams
    clientReqs, reqCount, sentReqs, passthrough, replies, resizes, predDisplay, predOverwrite,
    \* ---- SpecChan: the activated interposer (sink and epoch counter)
    interWrites, sinkBuf, chanEpoch,
    \* ---- SpecEpoch: SSH channel, Epochal, callers of Epochal.Write
    chanOpen, handed, pingSent, lastPing, epoch, writes, wpc, wcur, stopped,
    \* ---- SpecEpoch: RingDelayer
    ring, ringTerm, wkPc, wkBuf,
    \* ---- SpecEpoch: per-epoch ping and pong goroutines
    ping, pingSleep, pongPending, reqLock,
    \* ---- SpecEpoch: interposer state touched by the pump and the callbacks
    pendingEpoch, emuVer, pendingRemoteState, completeRemoteState, pumpPc,
    \* ---- SpecEpoch: history of what happened (not read by the program)
    wlog, werr, epochOf, openCalls, pingCalls, pingDone, closeCalls, pumpCommitOpen,
    \* ---- SpecRead: Interposer.Read and Close, and what Read returned
    rdPc, rdBuf, rdAfterClose, opened, pendNil, pending, lastUpstreamErr,
    droppedUpdate, initialized, frames, clPc, upstream, out, lastRet, expect,
    queuedAtClose, termSize,
    \* ---- SpecAsynk: the asynchronous sink writer, its drainer and callers
    buffer, bufferIndex, writeNotify, notifyClosed, upstreamErr, sinkUpstream,
    lastTransmittedIndex, nextIndex, drPc, awPc, awRem, awN, awLen, awAfterClose, awAfterErr,
    awRet, awCalls, accepted, delivered, panicked, acPc, acCloses,
    \* ---- SpecProxy: configuration of RunProxy (ProxyConfig)
    reportAuthErr, blockAgent, extraQuestions,
    \* ---- SpecProxy: the dial goroutine and the keyboard-interactive callback
    dialPc, dialResult, connErr, established, question, questions, cbPc, asked,
    challengeFailed, cbRet, toClient,
    \* ---- SpecProxy: auth-agent channels opened by the target server
    agent, agentPanic,
    \* ---- SpecCodec: a WindowChange, its serialisation and what was parsed back
    wcIn, wcBytes, wcOut, wcPc,
    \* ---- SpecSwitch: IoSwitch fields, a caller of Enable, a caller of Read/Write/Close
    refractor, swEnabled, enPc, enArg, enStarted, enDone, opPc, opKind, opPhase, opCount, swLog,
    \* ---- RingDelayer (delay.go): ring, worker, writers, Close
    rdDelay, rdRing, sendTime, head, tail, termination, notifyChan, notifyChanClosed, upstreamClosed, wrPc, wrP, wrSendTime, wrRet, rdCalls, wkrPc, wkrBuffer, wkrWait, wkrErr, rcPc, rdPanicked, rdEnqueued, rdHanded,
    \* ---- SpecLock: the Interposer's emulatorMutex and the goroutines that use the predictor
    emulatorMutex, gPc,
    \* ---- handleSshChannel: the four activities of a channel pair at the end of its life
    c2sPc, s2cPc, creqPc, sreqPc, clientClosed, serverClosed, proxyChanCloses, clientChanCloses, copyTargetCloses,
    \* ---- RunProxy with several clients: the shared proxyConn, one dial per attempt
    proxyConn, acceptPc, attempt, atDial, atConnErr, atEstablished, atCb, atRet, atAsking, atOffered, shown, sessionConn

chanVars == <<noPrediction, fakeDelay, chanType, clientSent, clientEOF, readPos,
              copyBuf, copyPc, proxyChanData, proxyChanReqs, enabled, activated,
              ptySeen, clientReqs, reqCount, sentReqs, passthrough, replies, resizes,
              predDisplay, predOverwrite, interWrites, sinkBuf, chanEpoch>>

epochVars == <<chanOpen, handed, pingSent, lastPing, epoch, writes, wpc, wcur, stopped,
               ring, ringTerm, wkPc, wkBuf, ping, pingSleep, pongPending, reqLock,
               pendingEpoch, emuVer, pendingRemoteState, completeRemoteState, pumpPc,
               wlog, werr, epochOf, openCalls, pingCalls, pingDone, closeCalls,
               pumpCommitOpen>>

readVars == <<rdPc, rdBuf, rdAfterClose, opened, pendNil, pending, lastUpstreamErr,
              droppedUpdate, initialized, frames, clPc, upstream, out, lastRet,
              expect, queuedAtClose, termSize>>

asynkVars == <<buffer, bufferIndex, writeNotify, notifyClosed, upstreamErr, sinkUpstream,
               lastTransmittedIndex, nextIndex, drPc, awPc, awRem, awN, awLen,
               awAfterClose, awAfterErr, awRet, awCalls, accepted, delivered,
               panicked, acPc, acCloses>>

proxyVars == <<reportAuthErr, blockAgent, extraQuestions, dialPc, dialResult, connErr,
               established, question, questions, cbPc, asked, challengeFailed, cbRet,
               toClient, agent, agentPanic>>

codecVars == <<wcIn, wcBytes, wcOut, wcPc>>

switchVars == <<refractor, swEnabled, enPc, enArg, enStarted, enDone, opPc, opKind, opPhase, opCount, swLog>>

ringVars == <<rdDelay, rdRing, sendTime, head, tail, termination, notifyChan, notifyChanClosed, upstreamClosed, wrPc, wrP, wrSendTime, wrRet, rdCalls, wkrPc, wkrBuffer, wkrWait, wkrErr, rcPc, rdPanicked, rdEnqueued, rdHanded>>

lockVars == <<emulatorMutex, gPc>>

tearVars == <<c2sPc, s2cPc, creqPc, sreqPc, clientClosed, serverClosed, proxyChanCloses, clientChanCloses, copyTargetCloses>>

attemptVars == <<proxyConn, acceptPc, attempt, atDial, atConnErr, atEstablished, atCb, atRet, atAsking, atOffered, shown, sessionConn>>

vars == <<chanVars, epochVars, readVars, asynkVars, proxyVars, codecVars, switchVars, ringVars, lockVars, tearVars, attemptVars>>

\* what the actions of one specification leave alone
exceptChan == <<epochVars, readVars, asynkVars, proxyVars, codecVars, switchVars, ringVars, lockVars, tearVars, attemptVars>>
exceptEpoch == <<chanVars, readVars, asynkVars, proxyVars, codecVars, switchVars, ringVars, lockVars, tearVars, attemptVars>>
exceptRead == <<chanVars, epochVars, asynkVars, proxyVars, codecVars, switchVars, ringVars, lockVars, tearVars, attemptVars>>
exceptAsynk == <<chanVars, epochVars, readVars, proxyVars, codecVars, switchVars, ringVars, lockVars, tearVars, attemptVars>>
exceptProxy == <<chanVars, epochVars, readVars, asynkVars, codecVars, switchVars, ringVars, lockVars, tearVars, attemptVars>>
exceptCodec == <<chanVars, epochVars, readVars, asynkVars, proxyVars, switchVars, ringVars, lockVars, tearVars, attemptVars>>
exceptSwitch == <<chanVars, epochVars, readVars, asynkVars, proxyVars, codecVars, ringVars, lockVars, tearVars, attemptVars>>
exceptRing == <<chanVars, epochVars, readVars, asynkVars, proxyVars, codecVars, switchVars, lockVars, tearVars, attemptVars>>
exceptLock == <<chanVars, epochVars, readVars, asynkVars, proxyVars, codecVars, switchVars, ringVars, tearVars, attemptVars>>
exceptTear == <<chanVars, epochVars, readVars, asynkVars, proxyVars, codecVars, switchVars, ringVars, lockVars, attemptVars>>

(***************************************************************************)
(* Bounds of the model.                                                    *)
(***************************************************************************)
\* bytes the client writes on the channel
MaxBytes == 3
\* largest chunk one io.Copy iteration moves
CopyChunk == 2
\* requests the client sends on the channel
MaxReqs == 2
\* calls of Epochal.Write
MaxWrites == 2
\* chunks of server output the upstream pump reads
MaxChunks == 1
\* slots of the delay ring
RingSize == 1
MaxBuf == 2
MaxFrames == 2
\* SpecAsynk: capacity of the sink's buffer, longest p and number of Write calls
AsynkCap == 1
MaxWriteLen == 2
MaxAsynkWrites == 2
MaxAsynkCloses == 2
\* SpecProxy: supplementary questions offered and agent channels opened
MaxQuestions == 2
MaxAgentChans == 2
\* client connections RunProxy accepts, one authentication attempt each
MaxAttempts == 2
\* SpecSwitch: calls of Read, Write or Close on the IoSwitch
MaxOps == 3
MaxRingWrites == 3
MaxRingDelay == 1

(***************************************************************************)
(* Helpers                                                                 *)
(***************************************************************************)
Min(a, b) == IF a < b THEN a ELSE b

IsPrefix(s, t) == Len(s) <= Len(t) /\ SubSeq(t, 1, Len(s)) = s

(***************************************************************************)
(* SSH request codecs (sshproxy.InterpretPtyReq / InterpretWindowChange).  *)
(* A payload is a sequence of octets 0..255.                               *)
(***************************************************************************)
\* binary.Read of a big-endian uint32 at offset i (1-based): needs 4 octets
BE32(p, i) == p[i] * 16777216 + p[i + 1] * 65536 + p[i + 2] * 256 + p[i + 3]

\* a uint32 held as two 16-bit halves (the checker's integers are 32 bits signed)
Half == 65536
U32(hi, lo) == [hi |-> hi, lo |-> lo]
\* binary.Read of a big-endian uint32 into a uint32 variable
ReadU32(p, i) == U32(p[i] * 256 + p[i + 1], p[i + 2] * 256 + p[i + 3])
\* binary.Write of a uint32, big-endian
PutU32(v) == <<v.hi \div 256, v.hi % 256, v.lo \div 256, v.lo % 256>>
\* uint32 multiplication by 8: the product modulo 2^32
Mul8Saturating(v) ==
    IF v.hi >= Half \div 8 THEN U32(Half - 1, Half - 1)
    ELSE U32(v.hi * 8 + (v.lo * 8) \div Half, (v.lo * 8) % Half)
Mul8(v) == U32((v.hi * 8 + (v.lo * 8) \div Half) % Half, (v.lo * 8) % Half)

ParseErr == [ok |-> FALSE, width |-> U32(0, 0), height |-> U32(0, 0)]

InterpretPtyReq(payload) ==
    LET n == Len(payload) IN
    IF n < 4 THEN ParseErr
    ELSE LET termLen == BE32(payload, 1) IN
         IF n < 4 + termLen THEN ParseErr
         ELSE IF n < 4 + termLen + 4 THEN ParseErr
         ELSE IF n < 4 + termLen + 8 THEN ParseErr
         ELSE [ok |-> TRUE,
               width |-> ReadU32(payload, 4 + termLen + 1),
               height |-> ReadU32(payload, 4 + termLen + 5)]

InterpretWindowChange(payload) ==
    LET n == Len(payload) IN
    IF n < 4 THEN ParseErr
    ELSE IF n < 8 THEN ParseErr
    ELSE [ok |-> TRUE, width |-> ReadU32(payload, 1), height |-> ReadU32(payload, 5)]

\* WindowChange.Serialize: Width, Height, Width*8, Height*8, big-endian
Serialize(wc) ==
    PutU32(wc.Width) \o PutU32(wc.Height) \o PutU32(Mul8(wc.Width)) \o PutU32(Mul8(wc.Height))

\* sample payloads the client may send
PtyGood == <<0, 0, 0, 1, 120,  0, 0, 0, 80,  0, 0, 0, 24,  0, 0, 0, 0,  0, 0, 0, 0>>
PtyTruncated == <<0, 0, 0, 1, 120,  0, 0, 0, 80>>
PtyLongTerm == <<0, 0, 0, 9, 120>>
WinchGood == <<0, 0, 0, 100,  0, 0, 0, 30,  0, 0, 3, 32,  0, 0, 0, 240>>
\* "never", "Always", "2" as octets
StrNever == <<110, 101, 118, 101, 114>>
StrAlwaysCap == <<65, 108, 119, 97, 121, 115>>
StrAlways == <<97, 108, 119, 97, 121, 115>>
StrAdaptive == <<97, 100, 97, 112, 116, 105, 118, 101>>
StrExperimental == <<101, 120, 112, 101, 114, 105, 109, 101, 110, 116, 97, 108>>
StrTrue == <<116, 114, 117, 101>>
StrFalse == <<102, 97, 108, 115, 101>>
StrOne == <<49>>
StrZero == <<48>>
StrTwo == <<50>>

\* strings.ToLower on ASCII octets
ToLower(s) == [i \in 1..Len(s) |-> IF s[i] >= 65 /\ s[i] <= 90 THEN s[i] + 32 ELSE s[i]]

Req(t, p, w) == [type |-> t, payload |-> p, wantReply |-> w, origin |-> "client", n |-> 0]

\* the requests the client sends under SpecChan
ReqSet ==
    { Req("pty-req", PtyGood, TRUE), Req("pty-req", PtyTruncated, TRUE),
      Req("window-change", WinchGood, FALSE),
      Req("nosshtradamus/displayPreference", StrNever, TRUE) }

Ping(e) == [type |-> "nosshtradamus/ping", payload |-> <<>>, wantReply |-> TRUE,
            origin |-> "proxy", n |-> e]

ChanTypes == {"session", "direct-tcpip"}

(***************************************************************************)
(* The state of SpecEpoch's variables right after construction             *)
(* (MakeEpochal, RingDelay, Interpose).                                    *)
(***************************************************************************)
Callers == {"drainer", "pump"}
Epochs == 1..MaxWrites

EpochIdle ==
    /\ chanOpen = TRUE
    /\ handed = {}
    /\ pingSent = {}
    /\ lastPing = <<>>
    /\ epoch = 0
    /\ writes = 0
    /\ wpc = [c \in Callers |-> "idle"]
    /\ wcur = [c \in Callers |-> 0]
    /\ stopped = [c \in Callers |-> FALSE]
    /\ ring = <<>>
    /\ ringTerm = FALSE
    /\ wkPc = "idle"
    /\ wkBuf = 0
    /\ ping = [e \in Epochs |-> "none"]
    /\ pingSleep = [e \in Epochs |-> 0]
    /\ pongPending = [e \in Epochs |-> FALSE]
    /\ reqLock = 0
    /\ pendingEpoch = FALSE
    /\ emuVer = 0
    /\ pendingRemoteState = 0
    /\ completeRemoteState = 0
    /\ pumpPc = "read"
    /\ wlog = <<>>
    /\ werr = {}
    /\ epochOf = [w \in 1..MaxWrites |-> 0]
    /\ openCalls = [e \in Epochs |-> 0]
    /\ pingCalls = [e \in Epochs |-> 0]
    /\ pingDone = {}
    /\ closeCalls = [e \in Epochs |-> 0]
    /\ pumpCommitOpen = FALSE

\* display.Open(), display.Close() and the frame deltas display.NewFrame can
\* emit, as byte strings that differ from one another
DisplayOpen == <<"o1", "o2", "o3">>
DisplayClose == <<"c1", "c2">>
FrameByte == "f"
FrameSet == {<<>>, <<FrameByte>>, <<FrameByte, FrameByte>>}
NoRet == [data |-> <<>>, err |-> "nil", afterClose |-> FALSE, epilogueQueued |-> FALSE,
          expectBefore |-> <<>>]

\* the interposer right after Interpose(): nothing read, nothing pending
ReadIdle ==
    /\ rdPc = "idle"
    /\ rdBuf = 0
    /\ rdAfterClose = FALSE
    /\ opened = FALSE
    /\ pendNil = TRUE
    /\ pending = <<>>
    /\ lastUpstreamErr = "nil"
    /\ droppedUpdate = FALSE
    /\ initialized = FALSE
    /\ frames = 0
    /\ clPc = "idle"
    /\ upstream = "open"
    /\ out = <<>>
    /\ lastRet = NoRet
    /\ expect = <<>>
    /\ queuedAtClose = 0
    /\ termSize = <<1, 1>>

\* what Asynk.Write returned last
NoWrite == [n |-> 0, err |-> "none"]

\* an auth-agent channel the target server has not opened yet
NoAgent == [st |-> "none", reason |-> "none", clientOpen |-> FALSE, acts |-> {},
            filtered |-> FALSE]

\* the goroutines that touch the predictor or the remote framebuffers of one
\* Interposer: the sink drainer (Epochal.Write), a pong goroutine
\* (CompleteEpoch), the pump, the caller of Read, the caller of Write, the
\* request filter (Resize) and a caller of CurrentContents
Goroutines == {"drainer", "pong", "pump", "reader", "writer", "resizer", "viewer"}

\* no goroutine inside the Interposer, the emulator mutex free
LockIdle ==
    /\ emulatorMutex = "free"
    /\ gPc = [g \in Goroutines |-> "idle"]

\* a channel pair right after handleSshChannel started its four goroutines:
\* both copies running, both request streams open, nothing closed
TearIdle ==
    /\ c2sPc = "copy"
    /\ s2cPc = "copy"
    /\ creqPc = "reqs"
    /\ sreqPc = "reqs"
    /\ clientClosed = FALSE
    /\ serverClosed = FALSE
    /\ proxyChanCloses = 0
    /\ clientChanCloses = 0
    /\ copyTargetCloses = 0

\* RunProxy before the first client: var proxyConn *ssh.Client is nil (0), no
\* callback ran, no dial was started, no session goroutine exists (-1)
Attempts == 1..MaxAttempts
AttemptIdle ==
    /\ proxyConn = 0
    /\ acceptPc = "accept"
    /\ attempt = 0
    /\ atDial = [a \in Attempts |-> "none"]
    /\ atConnErr = [a \in Attempts |-> FALSE]
    /\ atEstablished = [a \in Attempts |-> FALSE]
    /\ atCb = [a \in Attempts |-> "idle"]
    /\ atRet = [a \in Attempts |-> "none"]
    /\ atAsking = [a \in Attempts |-> 0]
    /\ atOffered = [a \in Attempts |-> 0]
    /\ shown = {}
    /\ sessionConn = [a \in Attempts |-> -1]

\* the goroutines that call RingDelayer.Write
RingWriters == {"w1", "w2"}

\* the ring's slot indexes: make([][]byte, ringSize)
RingSlots == 0 .. (RingSize - 1)

\* a RingDelayer right after RingDelay(rwc, delay, ringSize): every slot
\* nil (0), the worker blocked on the empty notification channel
RingRest ==
    /\ rdRing = [i \in RingSlots |-> 0]
    /\ sendTime = [i \in RingSlots |-> 0]
    /\ head = 0
    /\ tail = 0
    /\ termination = "nil"
    /\ notifyChan = 0
    /\ notifyChanClosed = FALSE
    /\ upstreamClosed = FALSE
    /\ wrPc = [w \in RingWriters |-> "idle"]
    /\ wrP = [w \in RingWriters |-> 0]
    /\ wrSendTime = [w \in RingWriters |-> 0]
    /\ wrRet = [w \in RingWriters |-> "none"]
    /\ rdCalls = 0
    /\ wkrPc = "recv"
    /\ wkrBuffer = 0
    /\ wkrWait = 0
    /\ wkrErr = FALSE
    /\ rcPc = "idle"
    /\ rdPanicked = FALSE
    /\ rdEnqueued = <<>>
    /\ rdHanded = <<>>

\* no RingDelayer under consideration
RingIdle ==
    /\ rdDelay = 0
    /\ RingRest

\* the IoSwitch right after MakeIoSwitch
SwitchIdle ==
    /\ refractor = "nil"
    /\ swEnabled = FALSE
    /\ enPc = "idle"
    /\ enArg = "nil"
    /\ enStarted = 0
    /\ enDone = 0
    /\ opPc = "idle"
    /\ opKind = "none"
    /\ opPhase = "none"
    /\ opCount = 0
    /\ swLog = {}

\* no WindowChange under consideration
CodecIdle ==
    /\ wcIn = [Width |-> U32(0, 0), Height |-> U32(0, 0)]
    /\ wcBytes = <<>>
    /\ wcOut = ParseErr
    /\ wcPc = "idle"

\* RunProxy before a client connected
ProxyRest ==
    /\ dialPc = "idle"
    /\ dialResult = "none"
    /\ connErr = "nil"
    /\ established = FALSE
    /\ question = FALSE
    /\ questions = 0
    /\ cbPc = "idle"
    /\ asked = FALSE
    /\ challengeFailed = FALSE
    /\ cbRet = "none"
    /\ toClient = {}
    /\ agent = [k \in 1..MaxAgentChans |-> NoAgent]
    /\ agentPanic = FALSE

ProxyIdle ==
    /\ reportAuthErr = FALSE
    /\ blockAgent = FALSE
    /\ extraQuestions = FALSE
    /\ ProxyRest

\* the sink right after MakeAsynk: empty buffer, drainer waiting on writeNotify
AsynkIdle ==
    /\ buffer = [i \in 1..AsynkCap |-> 0]
    /\ bufferIndex = 0
    /\ writeNotify = 0
    /\ notifyClosed = FALSE
    /\ upstreamErr = "nil"
    /\ sinkUpstream = "open"
    /\ lastTransmittedIndex = 0
    /\ nextIndex = 0
    /\ drPc = "take"
    /\ awPc = "idle"
    /\ awRem = 0
    /\ awN = 0
    /\ awLen = 0
    /\ awAfterClose = FALSE
    /\ awAfterErr = "nil"
    /\ awRet = NoWrite
    /\ awCalls = 0
    /\ accepted = 0
    /\ delivered = <<>>
    /\ panicked = "no"
    /\ acPc = "idle"
    /\ acCloses = 0

(***************************************************************************)
(* SpecChan: handleSshChannel with the channel filter of main.go.          *)
(***************************************************************************)
\* main.go: the filter exists unless prediction is off and there is no fake delay
FilterPresent == ~noPrediction \/ fakeDelay > 0

\* main.go: only channels of type "session" are wrapped
IsInterposedType(t) == t = "session"

\* the filter returned a replacement stream (the IoSwitch): copyTarget # proxyChan
Wrapped == FilterPresent /\ IsInterposedType(chanType)

\* the filter returned a request filter
HasReqFilter == Wrapped /\ ~noPrediction

\* io.Copy: dst.Write(buf[0:nr]) appends the whole chunk to the destination
CopyWriteShort(dst, buf) == dst \o SubSeq(buf, 1, 1)
CopyWriteTo(dst, buf) == dst \o buf

\* the pty-req case of the request filter: activate when the payload parsed
ShouldActivateAlways(parse) == TRUE
ShouldActivate(parse) == parse.ok

\* the channel pair right after handleSshChannel set it up
ChanRest ==
    /\ clientSent = <<>>
    /\ clientEOF = FALSE
    /\ readPos = 0
    /\ copyBuf = <<>>
    /\ copyPc = "read"
    /\ proxyChanData = <<>>
    /\ proxyChanReqs = <<>>
    /\ enabled = FALSE
    /\ activated = FALSE
    /\ ptySeen = FALSE
    /\ clientReqs = <<>>
    /\ reqCount = 0
    /\ sentReqs = <<>>
    /\ passthrough = <<>>
    /\ replies = <<>>
    /\ resizes = <<>>
    /\ predDisplay = StrExperimental
    /\ predOverwrite = TRUE
    /\ interWrites = 0
    /\ sinkBuf = <<>>
    /\ chanEpoch = 0

InitChan ==
    /\ noPrediction \in BOOLEAN
    /\ fakeDelay \in {0, 1}
    /\ chanType \in ChanTypes
    /\ ChanRest
    /\ EpochIdle
    /\ ReadIdle
    /\ AsynkIdle
    /\ AttemptIdle
    /\ TearIdle
    /\ LockIdle
    /\ RingIdle
    /\ SwitchIdle
    /\ CodecIdle
    /\ ProxyIdle

\* the client writes one byte on its channel; the k-th byte written carries
\* the value k, so that a dropped, repeated or reordered byte shows
ClientWrite ==
    /\ ~clientEOF
    /\ Len(clientSent) < MaxBytes
    /\ clientSent' = Append(clientSent, Len(clientSent) + 1)
    /\ UNCHANGED exceptChan
    /\ UNCHANGED <<noPrediction, fakeDelay, chanType, clientEOF, readPos, copyBuf,
                   copyPc, proxyChanData, proxyChanReqs, enabled, activated, ptySeen,
                   clientReqs, reqCount, sentReqs, passthrough, replies, resizes, predDisplay,
                   predOverwrite, interWrites, sinkBuf, chanEpoch>>

\* the client closeCalls its write side
ClientCloseWrite ==
    /\ ~clientEOF
    /\ clientEOF' = TRUE
    /\ UNCHANGED exceptChan
    /\ UNCHANGED <<noPrediction, fakeDelay, chanType, clientSent, readPos, copyBuf,
                   copyPc, proxyChanData, proxyChanReqs, enabled, activated, ptySeen,
                   clientReqs, reqCount, sentReqs, passthrough, replies, resizes, predDisplay,
                   predOverwrite, interWrites, sinkBuf, chanEpoch>>

\* io.Copy(copyTarget, clientChan): one Read of the client channel
CopyRead ==
    /\ copyPc = "read"
    /\ \/ /\ readPos < Len(clientSent)
          /\ \E n \in 1..Min(CopyChunk, Len(clientSent) - readPos) :
                /\ copyBuf' = SubSeq(clientSent, readPos + 1, readPos + n)
                /\ readPos' = readPos + n
          /\ copyPc' = "write"
       \/ /\ readPos = Len(clientSent)
          /\ clientEOF
          /\ copyPc' = "closeWrite"
          /\ UNCHANGED <<copyBuf, readPos>>
    /\ UNCHANGED exceptChan
    /\ UNCHANGED <<noPrediction, fakeDelay, chanType, clientSent, clientEOF,
                   proxyChanData, proxyChanReqs, enabled, activated, ptySeen,
                   clientReqs, reqCount, sentReqs, passthrough, replies, resizes, predDisplay,
                   predOverwrite, interWrites, sinkBuf, chanEpoch>>

\* io.Copy: one Write to copyTarget. The target is proxyChan itself, or the
\* IoSwitch, which writes to the interposer once enabled and to proxyChan before.
CopyWrite ==
    /\ copyPc = "write"
    /\ IF Wrapped /\ enabled
       THEN /\ interWrites' = interWrites + 1
            /\ sinkBuf' = sinkBuf \o copyBuf
            /\ UNCHANGED proxyChanData
       ELSE /\ proxyChanData' = CopyWriteTo(proxyChanData, copyBuf)
            /\ UNCHANGED <<interWrites, sinkBuf>>
    /\ copyBuf' = <<>>
    /\ copyPc' = "read"
    /\ UNCHANGED exceptChan
    /\ UNCHANGED <<noPrediction, fakeDelay, chanType, clientSent, clientEOF, readPos,
                   proxyChanReqs, enabled, activated, ptySeen, clientReqs, reqCount, sentReqs,
                   passthrough, replies, resizes, predDisplay, predOverwrite, chanEpoch>>

\* after io.Copy returned: proxyChan.CloseWrite(); close(clientClosed)
CopyCloseWrite ==
    /\ copyPc = "closeWrite"
    /\ copyPc' = "done"
    /\ UNCHANGED exceptChan
    /\ UNCHANGED <<noPrediction, fakeDelay, chanType, clientSent, clientEOF, readPos,
                   copyBuf, proxyChanData, proxyChanReqs, enabled, activated, ptySeen,
                   clientReqs, reqCount, sentReqs, passthrough, replies, resizes, predDisplay,
                   predOverwrite, interWrites, sinkBuf, chanEpoch>>

\* the client sends a channel request
ClientRequest ==
    /\ reqCount < MaxReqs
    /\ \E r \in ReqSet :
          /\ clientReqs' = Append(clientReqs, r)
          /\ sentReqs' = Append(sentReqs, r)
    /\ reqCount' = reqCount + 1
    /\ UNCHANGED exceptChan
    /\ UNCHANGED <<noPrediction, fakeDelay, chanType, clientSent, clientEOF, readPos,
                   copyBuf, copyPc, proxyChanData, proxyChanReqs, enabled, activated,
                   ptySeen, passthrough, replies, resizes, predDisplay, predOverwrite,
                   interWrites, sinkBuf, chanEpoch>>

PrefNames == {StrAlways, StrNever, StrAdaptive, StrExperimental}

\* the request types the filter handles itself
ControlTypes == {"nosshtradamus/displayPreference", "nosshtradamus/predictOverwrite"}

\* whether an iteration of the filter loop reaches passthrough <- request:
\* the two nosshtradamus cases end in continue on every path
PassesThroughAll(type) == TRUE
PassesThrough(type) == type \notin ControlTypes

\* what the switch of the request filter decides for one request
FilterDecision(r, interposerSet) ==
    LET low == ToLower(r.payload) IN
    CASE r.type = "pty-req" ->
           LET p == InterpretPtyReq(r.payload) IN
           [forward |-> PassesThrough(r.type), activate |-> ShouldActivate(p), resize |-> ShouldActivate(p),
            dims |-> <<p.width, p.height>>, reply |-> "none", pref |-> <<>>, over |-> "keep"]
      [] r.type = "window-change" ->
           LET w == InterpretWindowChange(r.payload) IN
           [forward |-> PassesThrough(r.type), activate |-> FALSE, resize |-> w.ok /\ interposerSet,
            dims |-> <<w.width, w.height>>, reply |-> "none", pref |-> <<>>, over |-> "keep"]
      [] r.type = "nosshtradamus/displayPreference" ->
           LET known == interposerSet /\ low \in PrefNames IN
           [forward |-> PassesThrough(r.type), activate |-> FALSE, resize |-> FALSE, dims |-> <<U32(0, 0), U32(0, 0)>>,
            reply |-> IF known /\ r.wantReply THEN "success" ELSE "none",
            pref |-> IF known THEN low ELSE <<>>, over |-> "keep"]
      [] r.type = "nosshtradamus/predictOverwrite" ->
           LET on == low \in {StrTrue, StrOne}
               off == low \in {StrFalse, StrZero} IN
           [forward |-> PassesThrough(r.type), activate |-> FALSE, resize |-> FALSE, dims |-> <<U32(0, 0), U32(0, 0)>>,
            reply |-> IF ~interposerSet \/ ~r.wantReply THEN "none"
                      ELSE IF on \/ off THEN "success" ELSE "failure",
            pref |-> <<>>,
            over |-> IF ~interposerSet THEN "keep"
                     ELSE IF on THEN "on" ELSE IF off THEN "off" ELSE "keep"]
      [] OTHER ->
           [forward |-> PassesThrough(r.type), activate |-> FALSE, resize |-> FALSE, dims |-> <<U32(0, 0), U32(0, 0)>>,
            reply |-> "none", pref |-> <<>>, over |-> "keep"]

\* a parseable pty-req reaches the proxy on this channel
ObservesPty(r) == r.type = "pty-req" /\ InterpretPtyReq(r.payload).ok

\* one iteration of the request filter's loop (for request := range sender):
\* the switch, then passthrough <- request unless the case ended in continue
FilterRequest ==
    /\ HasReqFilter
    /\ clientReqs # <<>>
    /\ passthrough = <<>>
    /\ LET r == Head(clientReqs)
           d == FilterDecision(r, activated) IN
       /\ clientReqs' = Tail(clientReqs)
       /\ ptySeen' = (ptySeen \/ ObservesPty(r))
       /\ activated' = (activated \/ d.activate)
       /\ enabled' = (enabled \/ d.activate)
       /\ resizes' = IF d.resize THEN Append(resizes, d.dims) ELSE resizes
       /\ predDisplay' = IF d.pref # <<>> THEN d.pref ELSE predDisplay
       /\ predOverwrite' = IF d.over = "on" THEN TRUE
                           ELSE IF d.over = "off" THEN FALSE ELSE predOverwrite
       /\ replies' = IF d.reply = "none" THEN replies
                     ELSE Append(replies, [type |-> r.type, ok |-> d.reply = "success",
                                           from |-> "filter"])
       /\ passthrough' = IF d.forward THEN <<r>> ELSE <<>>
    /\ UNCHANGED exceptChan
    /\ UNCHANGED <<noPrediction, fakeDelay, chanType, clientSent, clientEOF, readPos,
                   copyBuf, copyPc, proxyChanData, proxyChanReqs, reqCount, sentReqs,
                   interWrites, sinkBuf, chanEpoch>>

\* reflectRequests: SendRequest to the server side, then Reply if WantReply.
\* With a request filter the sink ranges over passthrough, else over clientReqs.
SinkForward ==
    /\ \E ok \in BOOLEAN :
          \/ /\ HasReqFilter
             /\ passthrough # <<>>
             /\ proxyChanReqs' = Append(proxyChanReqs, passthrough[1])
             /\ replies' = IF passthrough[1].wantReply
                           THEN Append(replies, [type |-> passthrough[1].type, ok |-> ok,
                                                 from |-> "server"])
                           ELSE replies
             /\ passthrough' = <<>>
             /\ UNCHANGED <<clientReqs, ptySeen>>
          \/ /\ ~HasReqFilter
             /\ clientReqs # <<>>
             /\ proxyChanReqs' = Append(proxyChanReqs, Head(clientReqs))
             /\ replies' = IF Head(clientReqs).wantReply
                           THEN Append(replies, [type |-> Head(clientReqs).type, ok |-> ok,
                                                 from |-> "server"])
                           ELSE replies
             /\ clientReqs' = Tail(clientReqs)
             /\ ptySeen' = (ptySeen \/ ObservesPty(Head(clientReqs)))
             /\ UNCHANGED passthrough
    /\ UNCHANGED exceptChan
    /\ UNCHANGED <<noPrediction, fakeDelay, chanType, clientSent, clientEOF, readPos,
                   copyBuf, copyPc, proxyChanData, enabled, activated, reqCount, sentReqs,
                   resizes, predDisplay, predOverwrite, interWrites, sinkBuf, chanEpoch>>

\* the activated interposer flushes its sink to the server channel, which
\* opens an epoch, and the open-epoch callback sends the ping
InterposerFlush ==
    /\ activated
    /\ sinkBuf # <<>>
    /\ proxyChanData' = proxyChanData \o sinkBuf
    /\ sinkBuf' = <<>>
    /\ chanEpoch' = chanEpoch + 1
    /\ proxyChanReqs' = Append(proxyChanReqs, Ping(chanEpoch + 1))
    /\ UNCHANGED exceptChan
    /\ UNCHANGED <<noPrediction, fakeDelay, chanType, clientSent, clientEOF, readPos,
                   copyBuf, copyPc, enabled, activated, ptySeen, clientReqs, reqCount, sentReqs,
                   passthrough, replies, resizes, predDisplay, predOverwrite, interWrites>>

NextChan ==
    \/ ClientWrite
    \/ ClientCloseWrite
    \/ CopyRead
    \/ CopyWrite
    \/ CopyCloseWrite
    \/ ClientRequest
    \/ FilterRequest
    \/ SinkForward
    \/ InterposerFlush

SpecChan == InitChan /\ [][NextChan]_vars

(***************************************************************************)
(* Claims settled under SpecChan                                           *)
(***************************************************************************)
ProxyPings == SelectSeq(proxyChanReqs, LAMBDA r : r.origin = "proxy")

UpstreamIsRing == fakeDelay > 0

\* epochs for which SpeculateEpoch ran and CompleteEpoch did not yet
OpenEpochs == {e \in Epochs : ping[e] \in {"sleep", "await", "pong"}}

\* a caller is about to enter Epochal.Write
CallerMayWrite(c) ==
    /\ wpc[c] = "idle"
    /\ ~stopped[c]
    /\ writes < MaxWrites
    /\ (c = "pump" => pumpPc = "writeback")

\* Epochal.Write: err == nil && requestGenerator != nil
TakesEpoch(ok) == ok

\* Epochal.Write, first statement: n, err := e.upstream.Write(p). The upstream
\* is the SSH channel, or RingDelayer.Write, which queues the bytes for
\* release at now + delay and returns (blocking while the ring is full).
EpochalWriteUpstream(c) ==
    /\ CallerMayWrite(c)
    /\ UpstreamIsRing => (ringTerm \/ Len(ring) < RingSize)
    /\ LET w == writes + 1
           ok == IF UpstreamIsRing THEN ~ringTerm ELSE chanOpen IN
       /\ writes' = w
       /\ wcur' = [wcur EXCEPT ![c] = IF TakesEpoch(ok) THEN w ELSE 0]
       /\ handed' = IF ok /\ ~UpstreamIsRing THEN handed \cup {w} ELSE handed
       /\ ring' = IF ok /\ UpstreamIsRing
                  THEN Append(ring, [w |-> w, wait |-> fakeDelay])
                  ELSE ring
       /\ wlog' = IF ok THEN Append(wlog, w) ELSE wlog
       /\ werr' = IF ok THEN werr ELSE werr \cup {w}
       /\ wpc' = [wpc EXCEPT ![c] = IF TakesEpoch(ok) THEN "add" ELSE "idle"]
       /\ stopped' = [stopped EXCEPT ![c] = ~ok]
       /\ pumpPc' = IF c = "pump" /\ ~ok THEN "stopped" ELSE pumpPc
    /\ UNCHANGED <<chanOpen, pingSent, lastPing, epoch, ringTerm, wkPc, wkBuf, ping,
                   pingSleep, pongPending, reqLock, pendingEpoch, emuVer,
                   pendingRemoteState, completeRemoteState, epochOf, openCalls,
                   pingCalls, pingDone, closeCalls, pumpCommitOpen>>
    /\ UNCHANGED exceptEpoch

\* Epochal.Write: requestedEpoch := atomic.AddUint64(e.epoch, 1)
EpochalWriteAdd(c) ==
    /\ wpc[c] = "add"
    /\ epoch < MaxWrites
    /\ epoch' = epoch + 1
    /\ epochOf' = [epochOf EXCEPT ![wcur[c]] = epoch + 1]
    /\ wpc' = [wpc EXCEPT ![c] = "gen"]
    /\ UNCHANGED <<chanOpen, handed, pingSent, lastPing, writes, wcur, stopped, ring,
                   ringTerm, wkPc, wkBuf, ping, pingSleep, pongPending, reqLock,
                   pendingEpoch, emuVer, pendingRemoteState, completeRemoteState,
                   pumpPc, wlog, werr, openCalls, pingCalls, pingDone, closeCalls,
                   pumpCommitOpen>>
    /\ UNCHANGED exceptEpoch

\* Epochal.Write: e.requestGenerator(e, requestedEpoch), which is main.go's
\* i.SpeculateEpoch(epoch); pingStart := time.Now(); go func() { ... }()
EpochalWriteGenerate(c) ==
    /\ wpc[c] = "gen"
    /\ LET e == epochOf[wcur[c]] IN
       /\ pendingEpoch' = TRUE
       /\ openCalls' = [openCalls EXCEPT ![e] = @ + 1]
       /\ ping' = [ping EXCEPT ![e] = "sleep"]
       /\ pingSleep' = [pingSleep EXCEPT ![e] = fakeDelay]
    /\ wpc' = [wpc EXCEPT ![c] = "idle"]
    /\ wcur' = [wcur EXCEPT ![c] = 0]
    /\ pumpPc' = IF c = "pump" THEN "commit" ELSE pumpPc
    /\ UNCHANGED <<chanOpen, handed, pingSent, lastPing, epoch, writes, stopped, ring,
                   ringTerm, wkPc, wkBuf, pongPending, reqLock, emuVer,
                   pendingRemoteState, completeRemoteState, wlog, werr, epochOf,
                   pingCalls, pingDone, closeCalls, pumpCommitOpen>>
    /\ UNCHANGED exceptEpoch

\* the ping goroutine: time.Sleep(fakeDelay) if any, then
\* sshChannel.SendRequest("nosshtradamus/ping/<epoch>", true, nil). The SSH
\* channel lets one request with want_reply wait for its reply at a time
\* (reqLock). On a closed channel SendRequest returns an error at once and the
\* goroutine goes on to ResponseTo.
PingSend(e) ==
    /\ ping[e] = "sleep"
    /\ pingSleep[e] = 0
    /\ reqLock = 0
    /\ pingCalls' = [pingCalls EXCEPT ![e] = @ + 1]
    /\ IF chanOpen
       THEN /\ pingSent' = pingSent \cup {e}
            /\ lastPing' = <<Ping(e)>>
            /\ reqLock' = e
            /\ ping' = [ping EXCEPT ![e] = "await"]
            /\ UNCHANGED <<pongPending, pingDone>>
       ELSE /\ ping' = [ping EXCEPT ![e] = "pong"]
            /\ pongPending' = [pongPending EXCEPT ![e] = epoch > e]
            /\ pingDone' = pingDone \cup {e}
            /\ UNCHANGED <<pingSent, lastPing, reqLock>>
    /\ UNCHANGED <<chanOpen, handed, epoch, writes, wpc, wcur, stopped, ring, ringTerm,
                   wkPc, wkBuf, pingSleep, pendingEpoch, emuVer, pendingRemoteState,
                   completeRemoteState, pumpPc, wlog, werr, epochOf, openCalls,
                   closeCalls, pumpCommitOpen>>
    /\ UNCHANGED exceptEpoch

\* SendRequest returns (a reply of either kind, or the channel closed); then
\* epochal.ResponseTo(epoch, pingStart): pending := load(epoch) > epoch, and
\* epochChanged starts the pong goroutine
PingReply(e) ==
    /\ ping[e] = "await"
    /\ reqLock' = 0
    /\ pongPending' = [pongPending EXCEPT ![e] = epoch > e]
    /\ pingDone' = pingDone \cup {e}
    /\ ping' = [ping EXCEPT ![e] = "pong"]
    /\ UNCHANGED <<chanOpen, handed, pingSent, lastPing, epoch, writes, wpc, wcur,
                   stopped, ring, ringTerm, wkPc, wkBuf, pingSleep, pendingEpoch,
                   emuVer, pendingRemoteState, completeRemoteState, pumpPc, wlog, werr,
                   epochOf, openCalls, pingCalls, closeCalls, pumpCommitOpen>>
    /\ UNCHANGED exceptEpoch

\* the pong goroutine exists once ResponseTo ran
MayCompleteEarly(e) == ping[e] \in {"await", "pong"}
MayComplete(e) == ping[e] = "pong"

\* the pong goroutine: time.Sleep(20ms); i.CompleteEpoch(epoch, pending)
CompleteEpoch(e) ==
    /\ MayComplete(e)
    /\ completeRemoteState' = pendingRemoteState
    /\ pendingEpoch' = pongPending[e]
    /\ closeCalls' = [closeCalls EXCEPT ![e] = @ + 1]
    /\ pongPending' = [pongPending EXCEPT ![e] = FALSE]
    /\ ping' = [ping EXCEPT ![e] = "closed"]
    /\ UNCHANGED <<chanOpen, handed, pingSent, lastPing, epoch, writes, wpc, wcur,
                   stopped, ring, ringTerm, wkPc, wkBuf, pingSleep, reqLock, emuVer,
                   pendingRemoteState, pumpPc, wlog, werr, epochOf, openCalls,
                   pingCalls, pingDone, pumpCommitOpen>>
    /\ UNCHANGED exceptEpoch

\* pullFromUpstream: a chunk of server output is read and performed on the
\* emulator; pendingRemoteState is refreshed; the emulator may answer with a
\* terminal-to-host report, which is written back through i.upstream.Write
PumpRead ==
    /\ pumpPc = "read"
    /\ chanOpen
    /\ emuVer < MaxChunks
    /\ emuVer' = emuVer + 1
    /\ pendingRemoteState' = emuVer + 1
    /\ \E report \in BOOLEAN : pumpPc' = IF report THEN "writeback" ELSE "commit"
    /\ UNCHANGED <<chanOpen, handed, pingSent, lastPing, epoch, writes, wpc, wcur,
                   stopped, ring, ringTerm, wkPc, wkBuf, ping, pingSleep, pongPending,
                   reqLock, pendingEpoch, completeRemoteState, wlog, werr, epochOf,
                   openCalls, pingCalls, pingDone, closeCalls, pumpCommitOpen>>
    /\ UNCHANGED exceptEpoch

\* pullFromUpstream: if !i.pendingEpoch { completeRemoteState = copy(pending) }
PumpCommit ==
    /\ pumpPc = "commit"
    /\ IF ~pendingEpoch
       THEN /\ completeRemoteState' = pendingRemoteState
            /\ pumpCommitOpen' = (pumpCommitOpen \/ OpenEpochs # {})
       ELSE UNCHANGED <<completeRemoteState, pumpCommitOpen>>
    /\ pumpPc' = "read"
    /\ UNCHANGED <<chanOpen, handed, pingSent, lastPing, epoch, writes, wpc, wcur,
                   stopped, ring, ringTerm, wkPc, wkBuf, ping, pingSleep, pongPending,
                   reqLock, pendingEpoch, emuVer, pendingRemoteState, wlog, werr,
                   epochOf, openCalls, pingCalls, pingDone, closeCalls>>
    /\ UNCHANGED exceptEpoch

\* pullFromUpstream: i.upstream.Read returns an error; the pump returns
PumpStop ==
    /\ pumpPc = "read"
    /\ ~chanOpen
    /\ pumpPc' = "stopped"
    /\ stopped' = [stopped EXCEPT !["pump"] = TRUE]
    /\ UNCHANGED <<chanOpen, handed, pingSent, lastPing, epoch, writes, wpc, wcur,
                   ring, ringTerm, wkPc, wkBuf, ping, pingSleep, pongPending, reqLock,
                   pendingEpoch, emuVer, pendingRemoteState, completeRemoteState, wlog,
                   werr, epochOf, openCalls, pingCalls, pingDone, closeCalls,
                   pumpCommitOpen>>
    /\ UNCHANGED exceptEpoch

\* the RingDelay worker: takes a notification, sleeps until the head's send
\* time, frees the head slot
WorkerTake ==
    /\ wkPc = "idle"
    /\ ring # <<>>
    /\ Head(ring).wait = 0
    /\ wkBuf' = Head(ring).w
    /\ ring' = Tail(ring)
    /\ wkPc' = "write"
    /\ UNCHANGED <<chanOpen, handed, pingSent, lastPing, epoch, writes, wpc, wcur,
                   stopped, ringTerm, ping, pingSleep, pongPending, reqLock,
                   pendingEpoch, emuVer, pendingRemoteState, completeRemoteState,
                   pumpPc, wlog, werr, epochOf, openCalls, pingCalls, pingDone,
                   closeCalls, pumpCommitOpen>>
    /\ UNCHANGED exceptEpoch

\* the RingDelay worker: _, err := rd.upstream.Write(buffer); an error ends it
WorkerWrite ==
    /\ wkPc = "write"
    /\ IF chanOpen
       THEN /\ handed' = handed \cup {wkBuf}
            /\ wkPc' = "idle"
            /\ wkBuf' = 0
            /\ UNCHANGED ringTerm
       ELSE /\ ringTerm' = TRUE
            /\ wkPc' = "dead"
            /\ UNCHANGED <<handed, wkBuf>>
    /\ UNCHANGED <<chanOpen, pingSent, lastPing, epoch, writes, wpc, wcur, stopped,
                   ring, ping, pingSleep, pongPending, reqLock, pendingEpoch, emuVer,
                   pendingRemoteState, completeRemoteState, pumpPc, wlog, werr,
                   epochOf, openCalls, pingCalls, pingDone, closeCalls, pumpCommitOpen>>
    /\ UNCHANGED exceptEpoch

\* one unit of time passes while some time.Sleep is pending: every pending
\* sleep and every queued send time comes one unit closer
Tick ==
    /\ fakeDelay > 0
    /\ \/ (wkPc = "idle" /\ ring # <<>> /\ Head(ring).wait > 0)
       \/ \E e \in Epochs : ping[e] = "sleep" /\ pingSleep[e] > 0
    /\ ring' = [i \in 1..Len(ring) |->
                   [ring[i] EXCEPT !.wait = IF @ > 0 THEN @ - 1 ELSE 0]]
    /\ pingSleep' = [e \in Epochs |-> IF pingSleep[e] > 0 THEN pingSleep[e] - 1 ELSE 0]
    /\ UNCHANGED <<chanOpen, handed, pingSent, lastPing, epoch, writes, wpc, wcur,
                   stopped, ringTerm, wkPc, wkBuf, ping, pongPending, reqLock,
                   pendingEpoch, emuVer, pendingRemoteState, completeRemoteState,
                   pumpPc, wlog, werr, epochOf, openCalls, pingCalls, pingDone,
                   closeCalls, pumpCommitOpen>>
    /\ UNCHANGED exceptEpoch

\* the server side closeCalls the channel: later writes and reads fail
ServerClose ==
    /\ chanOpen
    /\ chanOpen' = FALSE
    /\ UNCHANGED <<handed, pingSent, lastPing, epoch, writes, wpc, wcur, stopped, ring,
                   ringTerm, wkPc, wkBuf, ping, pingSleep, pongPending, reqLock,
                   pendingEpoch, emuVer, pendingRemoteState, completeRemoteState,
                   pumpPc, wlog, werr, epochOf, openCalls, pingCalls, pingDone,
                   closeCalls, pumpCommitOpen>>
    /\ UNCHANGED exceptEpoch

InitEpoch ==
    /\ noPrediction = FALSE
    /\ fakeDelay \in {0, 1}
    /\ chanType = "session"
    /\ ChanRest
    /\ EpochIdle
    /\ ReadIdle
    /\ AsynkIdle
    /\ AttemptIdle
    /\ TearIdle
    /\ LockIdle
    /\ RingIdle
    /\ SwitchIdle
    /\ CodecIdle
    /\ ProxyIdle

NextEpoch ==
    \/ \E c \in Callers : EpochalWriteUpstream(c)
    \/ \E c \in Callers : EpochalWriteAdd(c)
    \/ \E c \in Callers : EpochalWriteGenerate(c)
    \/ \E e \in Epochs : PingSend(e)
    \/ \E e \in Epochs : PingReply(e)
    \/ \E e \in Epochs : CompleteEpoch(e)
    \/ PumpRead
    \/ PumpCommit
    \/ PumpStop
    \/ WorkerTake
    \/ WorkerWrite
    \/ Tick
    \/ ServerClose

SpecEpoch == InitEpoch /\ [][NextEpoch]_vars

(***************************************************************************)
(* Claims about the epoch protocol (SpecEpoch)                             *)
(***************************************************************************)
Closed == {e \in Epochs : closeCalls[e] > 0}

\* C3: the k-th upstream write that returns without error gets epoch k, a
\* write that returns an error gets none, also when the sink drainer and the
\* pump's write-back call Epochal.Write concurrently
C3_KthWriteGetsEpochK ==
    /\ \A k \in 1..Len(wlog) : epochOf[wlog[k]] \in {0, k}
    /\ \A w \in werr : epochOf[w] = 0

\* C4: pings are sent on the channel in ascending epoch order (each ping sent
\* has a higher epoch than every ping sent before it), with want_reply = true
C4_PingsAscending ==
    [][\A e \in pingSent' \ pingSent :
          /\ \A f \in pingSent : f < e
          /\ lastPing'[1].wantReply]_vars

\* C5: when ping/e is sent on the SSH channel, the bytes of the write that
\* opened e were handed to the SSH channel before it, with and without the
\* ring delay shim
C5_DataBeforePing ==
    \A e \in pingSent : \E w \in handed : epochOf[w] = e

\* C6: CompleteEpoch is invoked in strictly ascending order of epoch id: each
\* epoch closed has a higher id than every epoch closed before it
C6_ClosesAscending ==
    [][\A e \in Closed' \ Closed : \A f \in Closed : f < e]_vars

\* C7: for every epoch, at most one ping call; an epoch is pinged only if it
\* was opened; it is closed at most once, only if it was opened, pinged exactly
\* once and its ping call has returned
C7_OpenPingCloseOneToOne ==
    \A e \in Epochs :
        /\ pingCalls[e] <= 1
        /\ openCalls[e] <= 1
        /\ closeCalls[e] <= 1
        /\ pingCalls[e] = 1 => openCalls[e] = 1
        /\ closeCalls[e] = 1 =>
              /\ openCalls[e] = 1
              /\ pingCalls[e] = 1
              /\ e \in pingDone
        /\ ping[e] \in {"pong", "closed"} => pingCalls[e] = 1
C7_Witness ==
    /\ Cardinality(Closed) >= 2
    /\ \A e \in Closed : pingCalls[e] = 1 /\ e \in pingSent
    /\ fakeDelay > 0

\* C8: the pump never assigns completeRemoteState while an epoch is open
C8_PumpCommitsOnlyWhenNoEpochOpen == ~pumpCommitOpen

(***************************************************************************)
(* SpecRead: Interposer.Read, called by the goroutine that copies the      *)
(* terminal's output to the client, against Interposer.Close, called by    *)
(* the request goroutine, with the pump, Write and Resize going on. Read   *)
(* and Close touch i.pending under bufferMutex but test i.pending and      *)
(* i.opened outside it, so a step is taken at each such access.            *)
(***************************************************************************)
Take(q, n) == SubSeq(q, 1, Min(n, Len(q)))
Drop(q, n) == SubSeq(q, Min(n, Len(q)) + 1, Len(q))
BufSizes == 1..MaxBuf
TermSizes == {<<1, 1>>, <<2, 1>>}

\* Read: open = open[n:], the part of display.Open() that did not fit
OpenRemainderNone(n) == <<>>
OpenRemainder(n) == Drop(DisplayOpen, n)

\* Read: if i.pending != nil, tested before anything else
PendingCheck == ~pendNil

\* what a Read that returns leaves behind: the bytes go to the caller
Return(data, err, fromPending) ==
    /\ out' = out \o data
    /\ lastRet' = [data |-> data, err |-> err, afterClose |-> rdAfterClose,
                   epilogueQueued |-> queuedAtClose > 0, expectBefore |-> expect]
    /\ expect' = IF fromPending THEN Drop(expect, Len(data)) ELSE expect
    /\ rdPc' = "idle"
    /\ rdBuf' = 0
    /\ rdAfterClose' = FALSE

\* Read(p) is called with a buffer of sz bytes and tests i.pending
ReadCall(sz) ==
    /\ rdPc = "idle"
    /\ rdBuf' = sz
    /\ rdAfterClose' = (clPc \in {"shut", "done"} /\ queuedAtClose > 0)
    /\ rdPc' = IF PendingCheck THEN "pend" ELSE "chkOpened"
    /\ UNCHANGED <<opened, pendNil, pending, lastUpstreamErr, droppedUpdate, initialized,
                   frames, clPc, upstream, out, lastRet, expect, queuedAtClose, termSize>>
    /\ UNCHANGED exceptRead

\* Read, under bufferMutex: n, err := i.pending.Read(p); an empty buffer gives
\* io.EOF, on which i.pending = nil and Read returns (0, nil)
ReadPending ==
    /\ rdPc = "pend"
    /\ IF pending = <<>>
       THEN /\ pendNil' = TRUE
            /\ pending' = <<>>
            /\ Return(<<>>, "nil", TRUE)
       ELSE /\ pending' = Drop(pending, rdBuf)
            /\ pendNil' = pendNil
            /\ Return(Take(pending, rdBuf), "nil", TRUE)
    /\ UNCHANGED <<opened, lastUpstreamErr, droppedUpdate, initialized, frames, clPc,
                   upstream, queuedAtClose, termSize>>
    /\ UNCHANGED exceptRead

\* Read: if !i.opened { i.opened = true ... }, else on to lastUpstreamErr
ReadCheckOpened ==
    /\ rdPc = "chkOpened"
    /\ opened' = TRUE
    /\ rdPc' = IF opened THEN "chkErr" ELSE "open"
    /\ UNCHANGED <<rdBuf, rdAfterClose, pendNil, pending, lastUpstreamErr, droppedUpdate,
                   initialized, frames, clPc, upstream, out, lastRet, expect,
                   queuedAtClose, termSize>>
    /\ UNCHANGED exceptRead

\* Read: n := copy(p, open); the rest of Open() is appended to i.pending
ReadOpen ==
    /\ rdPc = "open"
    /\ LET rest == OpenRemainder(rdBuf) IN
       /\ pending' = pending \o rest
       /\ pendNil' = IF rest # <<>> THEN FALSE ELSE pendNil
    /\ Return(Take(DisplayOpen, rdBuf), "nil", FALSE)
    /\ UNCHANGED <<opened, lastUpstreamErr, droppedUpdate, initialized, frames, clPc,
                   upstream, queuedAtClose, termSize>>
    /\ UNCHANGED exceptRead

\* Read: if i.lastUpstreamErr != nil { return 0, i.lastUpstreamErr }
ReadCheckErr ==
    /\ rdPc = "chkErr"
    /\ IF lastUpstreamErr # "nil"
       THEN Return(<<>>, lastUpstreamErr, FALSE)
       ELSE /\ rdPc' = "chkDropped"
            /\ UNCHANGED <<rdBuf, rdAfterClose, out, lastRet, expect>>
    /\ UNCHANGED <<opened, pendNil, pending, lastUpstreamErr, droppedUpdate, initialized,
                   frames, clPc, upstream, queuedAtClose, termSize>>
    /\ UNCHANGED exceptRead

\* Read: if !i.droppedUpdate { select ... }: the test of the flag; the select
\* is entered unless a notification was dropped
ReadCheckDropped ==
    /\ rdPc = "chkDropped"
    /\ rdPc' = IF droppedUpdate THEN "frame" ELSE "select"
    /\ UNCHANGED <<rdBuf, rdAfterClose, opened, pendNil, pending, lastUpstreamErr,
                   droppedUpdate, initialized, frames, clPc, upstream, out, lastRet,
                   expect, queuedAtClose, termSize>>
    /\ UNCHANGED exceptRead

\* Read: the select finds neither channel ready and the reader becomes a
\* waiting receiver of i.upstreamErr and i.predictionNotification; only from
\* here on does a non-blocking put of a notifier find a receiver
ReadSelect ==
    /\ rdPc = "select"
    /\ rdPc' = "wait"
    /\ UNCHANGED <<rdBuf, rdAfterClose, opened, pendNil, pending, lastUpstreamErr,
                   droppedUpdate, initialized, frames, clPc, upstream, out, lastRet,
                   expect, queuedAtClose, termSize>>
    /\ UNCHANGED exceptRead

\* Read: emission := display.NewFrame(...); n := copy(p, emission); the rest
\* is appended to i.pending
ReadFrame ==
    /\ rdPc = "frame"
    /\ frames < MaxFrames
    /\ \E emission \in FrameSet :
          /\ pending' = pending \o Drop(emission, rdBuf)
          /\ pendNil' = IF Drop(emission, rdBuf) # <<>> THEN FALSE ELSE pendNil
          /\ Return(Take(emission, rdBuf), "nil", FALSE)
    /\ droppedUpdate' = FALSE
    /\ initialized' = TRUE
    /\ frames' = frames + 1
    /\ UNCHANGED <<opened, lastUpstreamErr, clPc, upstream, queuedAtClose, termSize>>
    /\ UNCHANGED exceptRead

\* a non-blocking put on i.upstreamErr (pump: a chunk was performed;
\* CompleteEpoch) or on i.predictionNotification (Write): taken by a Read
\* waiting in select, else droppedUpdate = true
Notified ==
    /\ rdPc' = IF rdPc = "wait" THEN "frame" ELSE rdPc
    /\ droppedUpdate' = IF rdPc = "wait" THEN droppedUpdate ELSE TRUE

\* pullFromUpstream performed a chunk, or CompleteEpoch ran
UpstreamUpdate ==
    /\ upstream = "open"
    /\ Notified
    /\ UNCHANGED <<rdBuf, rdAfterClose, opened, pendNil, pending, lastUpstreamErr,
                   initialized, frames, clPc, upstream, out, lastRet, expect,
                   queuedAtClose, termSize>>
    /\ UNCHANGED exceptRead

\* Interposer.Write up to its notification: user bytes go to the predictor
\* and the emulator; 0x0c (repaint) clears i.initialized
InterposerWriteNotify(repaint) ==
    /\ clPc # "done"
    /\ initialized' = IF repaint THEN FALSE ELSE initialized
    /\ Notified
    /\ UNCHANGED <<rdBuf, rdAfterClose, opened, pendNil, pending, lastUpstreamErr,
                   frames, clPc, upstream, out, lastRet, expect, queuedAtClose,
                   termSize>>

\* Interposer.Write where the sink is not followed
InterposerWrite(repaint) ==
    /\ InterposerWriteNotify(repaint)
    /\ UNCHANGED exceptRead

\* Interposer.Resize: the emulator takes the new size
Resize(wh) ==
    /\ termSize # wh
    /\ termSize' = wh
    /\ UNCHANGED <<rdPc, rdBuf, rdAfterClose, opened, pendNil, pending, lastUpstreamErr,
                   droppedUpdate, initialized, frames, clPc, upstream, out, lastRet,
                   expect, queuedAtClose>>
    /\ UNCHANGED exceptRead

\* the server ends the stream: the pump's next upstream.Read fails
ServerEOF ==
    /\ upstream = "open"
    /\ upstream' = "closed"
    /\ UNCHANGED <<rdPc, rdBuf, rdAfterClose, opened, pendNil, pending, lastUpstreamErr,
                   droppedUpdate, initialized, frames, clPc, out, lastRet, expect,
                   queuedAtClose, termSize>>
    /\ UNCHANGED exceptRead

\* pullFromUpstream: i.upstream.Read returns err; if i.lastUpstreamErr == nil
\* it is recorded
PumpErrSet(err) ==
    /\ upstream = "closed"
    /\ lastUpstreamErr' = IF lastUpstreamErr = "nil" THEN err ELSE lastUpstreamErr
    /\ upstream' = err
    /\ UNCHANGED <<rdPc, rdBuf, rdAfterClose, opened, pendNil, pending, droppedUpdate,
                   initialized, frames, clPc, out, lastRet, expect, queuedAtClose,
                   termSize>>
    /\ UNCHANGED exceptRead

\* pullFromUpstream: the non-blocking put of err on i.upstreamErr, then return.
\* A Read waiting in select takes it: on io.EOF it returns display.Close() as
\* far as it fits in p, with the error.
PumpErrNotify ==
    /\ upstream \in {"EOF", "closed by peer"}
    /\ IF rdPc = "wait"
       THEN /\ Return(IF upstream = "EOF" THEN Take(DisplayClose, rdBuf) ELSE <<>>,
                      upstream, FALSE)
            /\ UNCHANGED droppedUpdate
       ELSE /\ droppedUpdate' = TRUE
            /\ UNCHANGED <<rdPc, rdBuf, rdAfterClose, out, lastRet, expect>>
    /\ upstream' = "done"
    /\ UNCHANGED <<opened, pendNil, pending, lastUpstreamErr, initialized, frames, clPc,
                   queuedAtClose, termSize>>
    /\ UNCHANGED exceptRead

\* Close: if i.opened
CloseCheck ==
    /\ clPc = "idle"
    /\ clPc' = IF opened THEN "append" ELSE "shut"
    /\ UNCHANGED <<rdPc, rdBuf, rdAfterClose, opened, pendNil, pending, lastUpstreamErr,
                   droppedUpdate, initialized, frames, upstream, out, lastRet, expect,
                   queuedAtClose, termSize>>
    /\ UNCHANGED exceptRead

\* Close, under bufferMutex: display.Close() is appended to i.pending
CloseAppend ==
    /\ clPc = "append"
    /\ pending' = pending \o DisplayClose
    /\ pendNil' = FALSE
    /\ expect' = pending \o DisplayClose
    /\ queuedAtClose' = Len(pending) + Len(DisplayClose)
    /\ clPc' = "shut"
    /\ UNCHANGED <<rdPc, rdBuf, rdAfterClose, opened, lastUpstreamErr, droppedUpdate,
                   initialized, frames, upstream, out, lastRet, termSize>>
    /\ UNCHANGED exceptRead

\* Close: i.upstreamAsynk.Close() and the deferred i.upstream.Close()
CloseUpstream ==
    /\ clPc = "shut"
    /\ clPc' = "done"
    /\ upstream' = IF upstream = "open" THEN "closed" ELSE upstream
    /\ UNCHANGED <<rdPc, rdBuf, rdAfterClose, opened, pendNil, pending, lastUpstreamErr,
                   droppedUpdate, initialized, frames, out, lastRet, expect,
                   queuedAtClose, termSize>>
    /\ UNCHANGED exceptRead

InitRead ==
    /\ noPrediction = FALSE
    /\ fakeDelay = 0
    /\ chanType = "session"
    /\ ChanRest
    /\ EpochIdle
    /\ ReadIdle
    /\ AsynkIdle
    /\ AttemptIdle
    /\ TearIdle
    /\ LockIdle
    /\ RingIdle
    /\ SwitchIdle
    /\ CodecIdle
    /\ ProxyIdle

NextRead ==
    \/ \E sz \in BufSizes : ReadCall(sz)
    \/ ReadPending
    \/ ReadCheckOpened
    \/ ReadOpen
    \/ ReadCheckErr
    \/ ReadCheckDropped
    \/ ReadSelect
    \/ ReadFrame
    \/ UpstreamUpdate
    \/ \E repaint \in BOOLEAN : InterposerWrite(repaint)
    \/ \E wh \in TermSizes : Resize(wh)
    \/ ServerEOF
    \/ \E err \in {"EOF", "closed by peer"} : PumpErrSet(err)
    \/ PumpErrNotify
    \/ CloseCheck
    \/ CloseAppend
    \/ CloseUpstream

SpecRead == InitRead /\ [][NextRead]_vars

(***************************************************************************)
(* Claims about Read and Close (SpecRead)                                  *)
(***************************************************************************)
OpenBytes(q) == SelectSeq(q, LAMBDA b : \E i \in 1..Len(DisplayOpen) : b = DisplayOpen[i])

\* C9: whatever Write, Resize, Close, pump and notification events happened,
\* the first byte Read returns is the first byte of display.Open(), the
\* bytes of Open() come out in order, and all of Open() has been returned
\* before the first byte of a frame delta, also with buffers shorter than Open()
C9_OpenFirst ==
    /\ out # <<>> => out[1] = DisplayOpen[1]
    /\ IsPrefix(OpenBytes(out), DisplayOpen)
    /\ \A i \in 1..Len(out) :
          out[i] = FrameByte => OpenBytes(SubSeq(out, 1, i - 1)) = DisplayOpen
C9_Witness ==
    /\ \E i \in 1..Len(out) : out[i] = FrameByte
    /\ MaxBuf < Len(DisplayOpen)
    /\ clPc = "done"
    /\ termSize # <<1, 1>>

\* C10: once Close, called with the terminal opened, has appended
\* display.Close() to the carry-over, no Read returns an error or EOF before
\* the carry-over queued before it and the whole epilogue have been returned
C10_EpilogueBeforeAnyError ==
    (lastRet.epilogueQueued /\ lastRet.err # "nil") => lastRet.expectBefore = <<>>

\* the Reads that are called after Close has appended the epilogue do return
\* the queued carry-over and the epilogue first, in order and without error
ReadsCalledAfterCloseGetEpilogue ==
    /\ IsPrefix(expect, pending)
    /\ lastRet.afterClose =>
          /\ lastRet.expectBefore # <<>> =>
                /\ lastRet.err = "nil"
                /\ lastRet.data # <<>>
                /\ \/ IsPrefix(lastRet.data, lastRet.expectBefore)
                   \/ IsPrefix(lastRet.expectBefore, lastRet.data)

(***************************************************************************)
(* SpecAsynk: the asynchronous sink writer (Asynk). One caller of Write    *)
(* (Interposer.Write), the drainer goroutine started by MakeAsynk, and     *)
(* Close. The upstream of the sink is Epochal, so every upstream write     *)
(* that returns without error opens an epoch. upstreamErr is read and      *)
(* written without the lock, so a step is taken at each access.            *)
(***************************************************************************)
Running == panicked = "no"

\* Write: n := copy(asynk.buffer[asynk.bufferIndex:], p)
CopyCount(idx, len) == Min(AsynkCap - idx, len)

\* drainer: if postWriteIndex == nextIndex the buffer is reclaimed
ShouldResetAlways(post, next) == TRUE
ShouldReset(post, next) == post = next

\* Write returns; a recursive call's result is returned as it is
AsynkReturn(n, err) ==
    /\ awRet' = [n |-> n, err |-> err]
    /\ awPc' = "idle"
    /\ awRem' = 0
    /\ awN' = 0
    /\ awLen' = 0
    /\ awAfterClose' = FALSE
    /\ awAfterErr' = "nil"

\* Asynk.Write(p) is entered with len bytes (possibly none); the pump's
\* error, if it has seen one other than EOF, is noted for the claims
AsynkWriteEnter(len) ==
    /\ Running
    /\ awPc = "idle"
    /\ awCalls < MaxAsynkWrites
    /\ awCalls' = awCalls + 1
    /\ awRem' = len
    /\ awLen' = len
    /\ awN' = 0
    /\ awAfterClose' = (acCloses > 0)
    /\ awAfterErr' = IF lastUpstreamErr = "EOF" THEN "nil" ELSE lastUpstreamErr
    /\ awRet' = NoWrite
    /\ awPc' = "chk"
    /\ UNCHANGED <<buffer, bufferIndex, writeNotify, notifyClosed, upstreamErr,
                   sinkUpstream, lastTransmittedIndex, nextIndex, drPc, accepted,
                   delivered, panicked, acPc, acCloses>>

\* Asynk.Write(p) is called on its own
AsynkWriteCall(len) ==
    /\ AsynkWriteEnter(len)
    /\ UNCHANGED exceptAsynk

\* Write (also each recursive Write(p[n:])): if asynk.upstreamErr != nil
AsynkWriteCheck ==
    /\ Running
    /\ awPc = "chk"
    /\ IF upstreamErr # "nil"
       THEN AsynkReturn(0, upstreamErr)
       ELSE /\ awPc' = "copy"
            /\ UNCHANGED <<awRem, awN, awLen, awAfterClose, awAfterErr, awRet>>
    /\ UNCHANGED <<buffer, bufferIndex, writeNotify, notifyClosed, upstreamErr,
                   sinkUpstream, lastTransmittedIndex, nextIndex, drPc, awCalls, accepted, delivered, panicked, acPc, acCloses>>
    /\ UNCHANGED exceptAsynk

\* Write, under the lock: copy what fits and advance bufferIndex
AsynkWriteCopy ==
    /\ Running
    /\ awPc = "copy"
    /\ LET n == CopyCount(bufferIndex, awRem) IN
       /\ buffer' = [i \in 1..AsynkCap |->
                        IF i > bufferIndex /\ i <= bufferIndex + n
                        THEN accepted + (i - bufferIndex) ELSE buffer[i]]
       /\ bufferIndex' = bufferIndex + n
       /\ accepted' = accepted + n
       /\ awRem' = awRem - n
       /\ awN' = n
    /\ awPc' = "notify"
    /\ UNCHANGED <<writeNotify, notifyClosed, upstreamErr, sinkUpstream,
                   lastTransmittedIndex, nextIndex, drPc, awLen, awAfterClose, awAfterErr, awRet,
                   awCalls, delivered, panicked, acPc, acCloses>>
    /\ UNCHANGED exceptAsynk

\* Write: select { case asynk.writeNotify <- true: ... default: ... }. A send
\* on the closed channel panics. With bytes left over the call goes on to
\* Write(p[n:]), after cond.Wait() when the put was rejected.
AsynkWriteNotify ==
    /\ Running
    /\ awPc = "notify"
    /\ IF notifyClosed
       THEN /\ panicked' = "write"
            /\ UNCHANGED <<writeNotify, awPc, awRem, awN, awLen, awAfterClose, awAfterErr, awRet>>
       ELSE /\ panicked' = panicked
            /\ writeNotify' = 1
            /\ IF awRem = 0
               THEN AsynkReturn(awN, "nil")
               ELSE /\ awPc' = IF writeNotify = 0 THEN "chk" ELSE "lock"
                    /\ UNCHANGED <<awRem, awN, awLen, awAfterClose, awAfterErr, awRet>>
    /\ UNCHANGED <<buffer, bufferIndex, notifyClosed, upstreamErr, sinkUpstream,
                   lastTransmittedIndex, nextIndex, drPc, awCalls, accepted,
                   delivered, acPc, acCloses>>
    /\ UNCHANGED exceptAsynk

\* Write: asynk.cond.L.Lock(); asynk.cond.Wait(): the caller parks until a
\* Signal or Broadcast
AsynkWriteWait ==
    /\ Running
    /\ awPc = "lock"
    /\ awPc' = "waiting"
    /\ UNCHANGED <<buffer, bufferIndex, writeNotify, notifyClosed, upstreamErr,
                   sinkUpstream, lastTransmittedIndex, nextIndex, drPc, awRem, awN, awLen,
                   awAfterClose, awAfterErr, awRet, awCalls, accepted, delivered,
                   panicked, acPc, acCloses>>
    /\ UNCHANGED exceptAsynk

\* cond.Signal() / cond.Broadcast(): a parked caller goes on to Write(p[n:])
Woken == IF awPc = "waiting" THEN "chk" ELSE awPc

\* drainer: for range asynk.writeNotify - takes a notification, or ends when
\* the channel is closed and empty
DrainTake ==
    /\ Running
    /\ drPc = "take"
    /\ writeNotify > 0 \/ notifyClosed
    /\ IF writeNotify > 0
       THEN /\ writeNotify' = 0
            /\ drPc' = "index"
       ELSE /\ drPc' = "done"
            /\ UNCHANGED writeNotify
    /\ UNCHANGED <<buffer, bufferIndex, notifyClosed, upstreamErr, sinkUpstream,
                   lastTransmittedIndex, nextIndex, awPc, awRem, awN, awLen, awAfterClose, awAfterErr,
                   awRet, awCalls, accepted, delivered, panicked, acPc,
                   acCloses>>
    /\ UNCHANGED exceptAsynk

\* drainer, under the lock: nextIndex := asynk.bufferIndex
DrainIndex ==
    /\ Running
    /\ drPc = "index"
    /\ nextIndex' = bufferIndex
    /\ drPc' = "write"
    /\ UNCHANGED <<buffer, bufferIndex, writeNotify, notifyClosed, upstreamErr,
                   sinkUpstream, lastTransmittedIndex, awPc, awRem, awN, awLen,
                   awAfterClose, awAfterErr, awRet, awCalls, accepted, delivered,
                   panicked, acPc, acCloses>>
    /\ UNCHANGED exceptAsynk

\* drainer: _, asynk.upstreamErr = upstream.Write(buffer[last:next]);
\* lastTransmittedIndex = nextIndex; on an error the drainer returns
DrainWrite ==
    /\ Running
    /\ drPc = "write"
    /\ IF sinkUpstream = "open"
       THEN /\ delivered' = delivered \o
                   [i \in 1..(nextIndex - lastTransmittedIndex) |->
                       buffer[lastTransmittedIndex + i]]
            /\ upstreamErr' = "nil"
            /\ drPc' = "post"
       ELSE /\ upstreamErr' = "closed pipe"
            /\ drPc' = "done"
            /\ UNCHANGED delivered
    /\ lastTransmittedIndex' = nextIndex
    /\ UNCHANGED <<buffer, bufferIndex, writeNotify, notifyClosed, sinkUpstream, nextIndex,
                   awPc, awRem, awN, awLen, awAfterClose, awAfterErr, awRet, awCalls, accepted, panicked, acPc, acCloses>>
    /\ UNCHANGED exceptAsynk

\* drainer, under the lock: reclaim the buffer if nothing was added during
\* the upstream write; cond.Signal()
DrainPost ==
    /\ Running
    /\ drPc = "post"
    /\ IF ShouldReset(bufferIndex, nextIndex)
       THEN /\ bufferIndex' = 0
            /\ lastTransmittedIndex' = 0
       ELSE UNCHANGED <<bufferIndex, lastTransmittedIndex>>
    /\ awPc' = Woken
    /\ nextIndex' = 0
    /\ drPc' = "take"
    /\ UNCHANGED <<buffer, writeNotify, notifyClosed, upstreamErr, sinkUpstream,
                   awRem, awN, awLen, awAfterClose, awAfterErr, awRet, awCalls, accepted,
                   delivered, panicked, acPc, acCloses>>
    /\ UNCHANGED exceptAsynk

\* Asynk.Close is called: if asynk.upstreamErr == nil { asynk.upstreamErr = io.EOF }
AsynkCloseSetErr ==
    /\ Running
    /\ acPc = "idle"
    /\ acCloses < MaxAsynkCloses
    /\ upstreamErr' = IF upstreamErr = "nil" THEN "EOF" ELSE upstreamErr
    /\ acPc' = "chan"
    /\ UNCHANGED <<buffer, bufferIndex, writeNotify, notifyClosed, sinkUpstream,
                   lastTransmittedIndex, nextIndex, drPc, awPc, awRem, awN, awLen,
                   awAfterClose, awAfterErr, awRet, awCalls, accepted, delivered, panicked, acCloses>>
    /\ UNCHANGED exceptAsynk

\* Close: close(asynk.writeNotify); closing a closed channel panics
AsynkCloseChan ==
    /\ Running
    /\ acPc = "chan"
    /\ IF notifyClosed
       THEN /\ panicked' = "close"
            /\ UNCHANGED <<notifyClosed, acPc>>
       ELSE /\ notifyClosed' = TRUE
            /\ acPc' = "broadcast"
            /\ UNCHANGED panicked
    /\ UNCHANGED <<buffer, bufferIndex, writeNotify, upstreamErr, sinkUpstream,
                   lastTransmittedIndex, nextIndex, drPc, awPc, awRem, awN, awLen,
                   awAfterClose, awAfterErr, awRet, awCalls, accepted, delivered,
                   acCloses>>
    /\ UNCHANGED exceptAsynk

\* Close: asynk.cond.Broadcast()
AsynkCloseBroadcast ==
    /\ Running
    /\ acPc = "broadcast"
    /\ awPc' = Woken
    /\ acPc' = "upstream"
    /\ UNCHANGED <<buffer, bufferIndex, writeNotify, notifyClosed, upstreamErr,
                   sinkUpstream, lastTransmittedIndex, nextIndex, drPc, awRem, awN, awLen,
                   awAfterClose, awAfterErr, awRet, awCalls, accepted, delivered,
                   panicked, acCloses>>
    /\ UNCHANGED exceptAsynk

\* Close: the upstream is an io.Closer: return closer.Close()
AsynkCloseUpstream ==
    /\ Running
    /\ acPc = "upstream"
    /\ sinkUpstream' = "closed"
    /\ acCloses' = acCloses + 1
    /\ acPc' = "idle"
    /\ UNCHANGED <<buffer, bufferIndex, writeNotify, notifyClosed, upstreamErr,
                   lastTransmittedIndex, nextIndex, drPc, awPc, awRem, awN, awLen,
                   awAfterClose, awAfterErr, awRet, awCalls, accepted, delivered,
                   panicked>>
    /\ UNCHANGED exceptAsynk

\* the upstream starts to fail on its own (the server closed the channel)
AsynkUpstreamFail ==
    /\ Running
    /\ sinkUpstream = "open"
    /\ sinkUpstream' = "closed"
    /\ UNCHANGED <<buffer, bufferIndex, writeNotify, notifyClosed, upstreamErr,
                   lastTransmittedIndex, nextIndex, drPc, awPc, awRem, awN, awLen,
                   awAfterClose, awAfterErr, awRet, awCalls, accepted, delivered,
                   panicked, acPc, acCloses>>
    /\ UNCHANGED exceptAsynk

InitAsynk ==
    /\ noPrediction = FALSE
    /\ fakeDelay = 0
    /\ chanType = "session"
    /\ ChanRest
    /\ EpochIdle
    /\ ReadIdle
    /\ AsynkIdle
    /\ AttemptIdle
    /\ TearIdle
    /\ LockIdle
    /\ RingIdle
    /\ SwitchIdle
    /\ CodecIdle
    /\ ProxyIdle

NextAsynk ==
    \/ \E len \in 0..MaxWriteLen : AsynkWriteCall(len)
    \/ AsynkWriteCheck
    \/ AsynkWriteCopy
    \/ AsynkWriteNotify
    \/ AsynkWriteWait
    \/ DrainTake
    \/ DrainIndex
    \/ DrainWrite
    \/ DrainPost
    \/ AsynkCloseSetErr
    \/ AsynkCloseChan
    \/ AsynkCloseBroadcast
    \/ AsynkCloseUpstream
    \/ AsynkUpstreamFail

SpecAsynk == InitAsynk /\ [][NextAsynk]_vars

\* The drainer is a goroutine of its own and the caller of Write runs on:
\* the scheduler lets each of them take its next step when it has one.
DrainStep == DrainTake \/ DrainIndex \/ DrainWrite \/ DrainPost
WriteStep == AsynkWriteCheck \/ AsynkWriteCopy \/ AsynkWriteNotify \/ AsynkWriteWait
SpecAsynkFair ==
    InitAsynk /\ [][NextAsynk]_vars /\ WF_asynkVars(DrainStep) /\ WF_asynkVars(WriteStep)

\* C15: with a single writer the bytes handed upstream are always a prefix
\* of the bytes Write accepted (each once, in order, across the index reset),
\* and unless the Asynk is closed or the upstream fails every accepted byte
\* is eventually handed upstream
Accepted == [i \in 1..accepted |-> i]
C11_NoEpochForZeroBytes ==
    [][(drPc = "write" /\ TakesEpoch(drPc' = "post")) =>
          nextIndex > lastTransmittedIndex]_vars

\* a call of Write returns in this step
WriteReturns == awPc # "idle" /\ awPc' = "idle"

\* C14: a Write(p) that ends without error returns n = len(p), also when p is
\* longer than the free space or the capacity of the buffer
C14_WriteReturnsFullLength ==
    [][(WriteReturns /\ awRet'.err = "nil") => awRet'.n = awLen]_vars

\* C16: Close is idempotent: a second Close, and a Close after the drainer
\* stopped on an upstream error, completes normally and never crashes
C16_CloseNeverPanics == panicked # "close"

\* C17: a Write called after Close returned gives back 0 and the sticky error
\* (so it copies nothing and notifies nobody), and no Write, whether called
\* after Close or overlapping it, crashes the process
C17_WriteAfterCloseFails ==
    /\ [](panicked # "write")
    /\ [][(WriteReturns /\ awAfterClose) =>
             (awRet'.n = 0 /\ awRet'.err # "nil")]_vars

\* the Asynk was neither closed nor did its upstream fail
SinkHealthy ==
    /\ sinkUpstream = "open"
    /\ upstreamErr = "nil"
    /\ acPc = "idle"
    /\ acCloses = 0
    /\ Running

\* C32: a Write whose data did not fit and that goes to wait for space
\* (rejected put, then cond.Wait) eventually goes on, as long as the upstream
\* keeps accepting writes and the Asynk is not closed: no drainer signal is
\* lost in any interleaving of the writer and the drainer
C32_BlockedWriterWoken ==
    (awPc \in {"lock", "waiting"}) ~> (awPc \notin {"lock", "waiting"} \/ ~SinkHealthy)

\* the drainer returned because upstream.Write gave an error
DrainerFailed == drPc = "done" /\ upstreamErr \notin {"nil", "EOF"}

\* C33: after the upstream writer returned an error to the drainer, a writer
\* parked in cond.Wait() is woken (and then returns the sticky error): no
\* writer stays blocked forever after an upstream error
C33_UpstreamErrorWakesWriters ==
    (DrainerFailed /\ awPc = "waiting") ~> (awPc # "waiting" \/ ~Running)

(***************************************************************************)
(* SpecReq: the request path of a session channel with prediction: the     *)
(* client's requests, the request filter and the forwarding sink           *)
(***************************************************************************)
\* the nosshtradamus requests the client sends under SpecReq
ControlReqSet ==
    { Req("nosshtradamus/displayPreference", StrAlwaysCap, TRUE),
      Req("nosshtradamus/displayPreference", StrTwo, TRUE),
      Req("nosshtradamus/predictOverwrite", StrOne, TRUE),
      Req("nosshtradamus/predictOverwrite", StrTwo, TRUE),
      Req("nosshtradamus/predictOverwrite", StrFalse, FALSE) }

\* the client sends a nosshtradamus request on its channel
ClientControlRequest ==
    /\ reqCount < MaxReqs
    /\ \E r \in ControlReqSet :
          /\ clientReqs' = Append(clientReqs, r)
          /\ sentReqs' = Append(sentReqs, r)
    /\ reqCount' = reqCount + 1
    /\ UNCHANGED exceptChan
    /\ UNCHANGED <<noPrediction, fakeDelay, chanType, clientSent, clientEOF, readPos,
                   copyBuf, copyPc, proxyChanData, proxyChanReqs, enabled, activated,
                   ptySeen, passthrough, replies, resizes, predDisplay, predOverwrite,
                   interWrites, sinkBuf, chanEpoch>>

InitReq ==
    /\ noPrediction = FALSE
    /\ fakeDelay = 0
    /\ chanType = "session"
    /\ ChanRest
    /\ EpochIdle
    /\ ReadIdle
    /\ AsynkIdle
    /\ AttemptIdle
    /\ TearIdle
    /\ LockIdle
    /\ RingIdle
    /\ SwitchIdle
    /\ CodecIdle
    /\ ProxyIdle

NextReq ==
    \/ ClientRequest
    \/ ClientControlRequest
    \/ FilterRequest
    \/ SinkForward

SpecReq == InitReq /\ [][NextReq]_vars

IsControl(r) == r.type \in ControlTypes
NonControl(q) == SelectSeq(q, LAMBDA r : ~IsControl(r))
\* the client's requests that reached the server side, in order of arrival
ClientForwarded == SelectSeq(proxyChanReqs, LAMBDA r : r.origin = "client")
\* the requests the filter loop has taken off the client's channel so far
Consumed == SubSeq(sentReqs, 1, Len(sentReqs) - Len(clientReqs))

\* C12: on a session channel with prediction no displayPreference or
\* predictOverwrite request reaches the server, whatever its payload and
\* whether the interposer is active or not, and the other client requests
\* are forwarded once each in the order received
C12_ControlNeverForwarded ==
    HasReqFilter =>
       /\ \A i \in 1..Len(proxyChanReqs) : ~IsControl(proxyChanReqs[i])
       /\ ClientForwarded \o passthrough = NonControl(Consumed)
\* control requests were taken both before and after activation, and an
\* ordinary request went through
C12_Witness ==
    /\ HasReqFilter
    /\ activated
    /\ clientReqs = <<>> /\ passthrough = <<>>
    /\ Len(ClientForwarded) >= 1
    /\ \E i \in 1..Len(sentReqs) : IsControl(sentReqs[i])

\* the payloads the two nosshtradamus requests recognise
Recognised(r) ==
    IF r.type = "nosshtradamus/displayPreference"
    THEN ToLower(r.payload) \in PrefNames
    ELSE ToLower(r.payload) \in {StrTrue, StrOne, StrFalse, StrZero}
\* the nosshtradamus requests taken by the filter that asked for a reply
ControlWantingReply == SelectSeq(Consumed, LAMBDA r : IsControl(r) /\ r.wantReply)
FilterReplies == SelectSeq(replies, LAMBDA y : y.from = "filter")

\* C13: every displayPreference or predictOverwrite request sent with
\* want_reply gets exactly one reply, success when its payload is recognised
\* and failure otherwise, before and after the interposer is activated
C13_ControlRepliedOnce ==
    HasReqFilter =>
       /\ Len(FilterReplies) = Len(ControlWantingReply)
       /\ \A i \in 1..Len(FilterReplies) :
             /\ i <= Len(ControlWantingReply)
             /\ FilterReplies[i].type = ControlWantingReply[i].type
             /\ FilterReplies[i].ok = Recognised(ControlWantingReply[i])

(***************************************************************************)
(* SpecProxy: RunProxy for one connecting client: the keyboard-interactive *)
(* callback with its dial goroutine, then the auth-agent channels the      *)
(* target server opens                                                     *)
(***************************************************************************)
cfgVars == <<reportAuthErr, blockAgent, extraQuestions>>
agentVars == <<agent, agentPanic>>

\* what the client may do with a supplementary challenge: the challenge
\* fails, the number of answers is not 1, OnAnswer rejects, OnAnswer accepts
ChallengeOutcomes == {"err", "count", "wrong", "right"}

\* the callback's last statement: return nil, connErr
CallbackResultNil(err) == "success"
CallbackResult(err) == IF err = "nil" THEN "success" ELSE "error"

\* if !asked || (reportAuthErr && connErr != nil)
SendsTrailing(a, report, err) == ~a \/ (report /\ err # "nil")

\* msg := ""; if connErr != nil { msg = connErr.Error() }; no questions
TrailingChallenge(err) ==
    [msg |-> IF err # "nil" THEN "dial error" ELSE "", prompts |-> 0]
QuestionChallenge == [msg |-> "question", prompts |-> 1]

\* the client attempts keyboard-interactive auth: the callback starts the dial
\* goroutine and goes on to the question loop, or to <-established
CbStart ==
    /\ cbPc = "idle"
    /\ dialPc' = "running"
    /\ cbPc' = IF extraQuestions THEN "select" ELSE "wait"
    /\ UNCHANGED <<dialResult, connErr, established, question, questions, asked,
                   challengeFailed, cbRet, toClient>>
    /\ UNCHANGED <<cfgVars, agentVars>>
    /\ UNCHANGED exceptProxy

\* dial goroutine: proxyConn, connErr = ssh.Dial(...)
DialReturn(ok) ==
    /\ dialPc = "running"
    /\ dialResult' = IF ok THEN "ok" ELSE "failed"
    /\ connErr' = IF ok THEN "nil" ELSE "err"
    /\ dialPc' = "assigned"
    /\ UNCHANGED <<established, question, questions, cbPc, asked, challengeFailed,
                   cbRet, toClient>>
    /\ UNCHANGED <<cfgVars, agentVars>>
    /\ UNCHANGED exceptProxy

\* dial goroutine: close(established)
DialClose ==
    /\ dialPc = "assigned"
    /\ established' = TRUE
    /\ dialPc' = "done"
    /\ UNCHANGED <<dialResult, connErr, question, questions, cbPc, asked,
                   challengeFailed, cbRet, toClient>>
    /\ UNCHANGED <<cfgVars, agentVars>>
    /\ UNCHANGED exceptProxy

\* an auth method of the dial offers a question on configOpts.ExtraQuestions
QuestionOffered ==
    /\ extraQuestions
    /\ dialPc = "running"
    /\ ~question
    /\ questions < MaxQuestions
    /\ question' = TRUE
    /\ questions' = questions + 1
    /\ UNCHANGED <<dialPc, dialResult, connErr, established, cbPc, asked,
                   challengeFailed, cbRet, toClient>>
    /\ UNCHANGED <<cfgVars, agentVars>>
    /\ UNCHANGED exceptProxy

\* the callback returns
CbReturn(result) ==
    /\ cbRet' = result
    /\ cbPc' = "done"

\* callback, no ExtraQuestions: <-established
CbWait ==
    /\ cbPc = "wait"
    /\ established
    /\ cbPc' = "trailing"
    /\ UNCHANGED <<dialPc, dialResult, connErr, established, question, questions, asked,
                   challengeFailed, cbRet, toClient>>
    /\ UNCHANGED <<cfgVars, agentVars>>
    /\ UNCHANGED exceptProxy

\* callback, select: case question := <-configOpts.ExtraQuestions: challenge
\* the client with it; an error, a wrong number of answers or a rejected
\* answer returns an error at once
CbSelectQuestion ==
    /\ cbPc = "select"
    /\ question
    /\ question' = FALSE
    /\ asked' = TRUE
    /\ toClient' = toClient \cup {QuestionChallenge}
    /\ \E o \in ChallengeOutcomes :
          IF o = "right"
          THEN /\ cbPc' = "chkerr"
               /\ UNCHANGED <<challengeFailed, cbRet>>
          ELSE /\ challengeFailed' = TRUE
               /\ CbReturn("error")
    /\ UNCHANGED <<dialPc, dialResult, connErr, established, questions>>
    /\ UNCHANGED <<cfgVars, agentVars>>
    /\ UNCHANGED exceptProxy

\* callback, after an accepted answer: if connErr != nil { break loop }
CbCheckConnErr ==
    /\ cbPc = "chkerr"
    /\ cbPc' = IF connErr # "nil" THEN "trailing" ELSE "select"
    /\ UNCHANGED <<dialPc, dialResult, connErr, established, question, questions, asked,
                   challengeFailed, cbRet, toClient>>
    /\ UNCHANGED <<cfgVars, agentVars>>
    /\ UNCHANGED exceptProxy

\* callback, select: case <-established: break loop
CbSelectEstablished ==
    /\ cbPc = "select"
    /\ established
    /\ cbPc' = "trailing"
    /\ UNCHANGED <<dialPc, dialResult, connErr, established, question, questions, asked,
                   challengeFailed, cbRet, toClient>>
    /\ UNCHANGED <<cfgVars, agentVars>>
    /\ UNCHANGED exceptProxy

\* callback: the trailing challenge with no questions, its result ignored
CbTrailing ==
    /\ cbPc = "trailing"
    /\ toClient' = IF SendsTrailing(asked, reportAuthErr, connErr)
                   THEN toClient \cup {TrailingChallenge(connErr)}
                   ELSE toClient
    /\ cbPc' = "ret"
    /\ UNCHANGED <<dialPc, dialResult, connErr, established, question, questions, asked,
                   challengeFailed, cbRet>>
    /\ UNCHANGED <<cfgVars, agentVars>>
    /\ UNCHANGED exceptProxy

\* callback: return nil, connErr
CbFinish ==
    /\ cbPc = "ret"
    /\ CbReturn(CallbackResult(connErr))
    /\ UNCHANGED <<dialPc, dialResult, connErr, established, question, questions, asked,
                   challengeFailed, toClient>>
    /\ UNCHANGED <<cfgVars, agentVars>>
    /\ UNCHANGED exceptProxy

authVars == <<dialPc, dialResult, connErr, established, question, questions, cbPc,
              asked, challengeFailed, cbRet, toClient>>

\* the connection goroutine runs once ssh.NewServerConn returned without error
Connected == cbRet = "success" /\ ~agentPanic

\* HandleChannelOpen loop: if configOpts.BlockAgent
AgentRejectedNever(block) == FALSE
AgentRejected(block) == block

\* the filter argument of go handleSshChannel(sshConn, proxyConn, channelRequest, nil)
AgentFilter == "nil"
\* handleSshChannel: if filter != nil { copyTarget, requestFilter = filter(...) }
UsesFilter(filter) == filter # "nil"
\* handleSshChannel: the two io.Copy goroutines and the two request goroutines
FourActivities == {"copy to target", "copy from target", "requests to target",
                   "requests from target"}

\* the target server opens an auth-agent@openssh.com channel
AgentOpen(k) ==
    /\ Connected
    /\ agent[k].st = "none"
    /\ \A j \in 1..(k - 1) : agent[j].st # "none"
    /\ agent' = [agent EXCEPT ![k].st = "requested"]
    /\ UNCHANGED <<cfgVars, authVars, agentPanic>>
    /\ UNCHANGED exceptProxy

\* for channelRequest := range nc: Reject(ssh.Prohibited, ...) and continue
\* when agent forwarding is blocked, else go handleSshChannel
AgentDispatch(k) ==
    /\ Connected
    /\ agent[k].st = "requested"
    /\ \A j \in 1..(k - 1) : agent[j].st # "requested"
    /\ agent' = IF AgentRejected(blockAgent)
                THEN [agent EXCEPT ![k].st = "rejected", ![k].reason = "Prohibited"]
                ELSE [agent EXCEPT ![k].st = "handling"]
    /\ UNCHANGED <<cfgVars, authVars, agentPanic>>
    /\ UNCHANGED exceptProxy

\* handleSshChannel: clientSide.OpenChannel(chanType, extraData); on an error
\* the request is rejected with the error's reason, and the function goes on
AgentOpenChannel(k, ok) ==
    /\ Connected
    /\ agent[k].st = "handling"
    /\ agent' = IF ok
                THEN [agent EXCEPT ![k].st = "opened", ![k].clientOpen = TRUE]
                ELSE [agent EXCEPT ![k].st = "refused", ![k].clientOpen = TRUE,
                                   ![k].reason = "open failed"]
    /\ UNCHANGED <<cfgVars, authVars, agentPanic>>
    /\ UNCHANGED exceptProxy

\* handleSshChannel: request.Accept(); on an error proxyChan.Close() and
\* return, else the four activities are started on copyTarget and the sink.
\* After a Reject, Accept fails and proxyChan is nil: Close on it panics.
AgentAccept(k, ok) ==
    /\ Connected
    /\ agent[k].st \in {"opened", "refused"}
    /\ IF agent[k].st = "refused"
       THEN /\ agentPanic' = TRUE
            /\ UNCHANGED agent
       ELSE /\ agent' = IF ok
                        THEN [agent EXCEPT ![k].st = "forwarding",
                                           ![k].filtered = UsesFilter(AgentFilter),
                                           ![k].acts = FourActivities]
                        ELSE [agent EXCEPT ![k].st = "closed"]
            /\ UNCHANGED agentPanic
    /\ UNCHANGED <<cfgVars, authVars>>
    /\ UNCHANGED exceptProxy

InitProxy ==
    /\ noPrediction = FALSE
    /\ fakeDelay = 0
    /\ chanType = "session"
    /\ ChanRest
    /\ EpochIdle
    /\ ReadIdle
    /\ AsynkIdle
    /\ AttemptIdle
    /\ TearIdle
    /\ LockIdle
    /\ RingIdle
    /\ SwitchIdle
    /\ CodecIdle
    /\ reportAuthErr \in BOOLEAN
    /\ blockAgent \in BOOLEAN
    /\ extraQuestions \in BOOLEAN
    /\ ProxyRest

NextProxy ==
    \/ CbStart
    \/ \E ok \in BOOLEAN : DialReturn(ok)
    \/ DialClose
    \/ QuestionOffered
    \/ CbWait
    \/ CbSelectQuestion
    \/ CbCheckConnErr
    \/ CbSelectEstablished
    \/ CbTrailing
    \/ CbFinish
    \/ \E k \in 1..MaxAgentChans : AgentOpen(k)
    \/ \E k \in 1..MaxAgentChans : AgentDispatch(k)
    \/ \E k \in 1..MaxAgentChans, ok \in BOOLEAN : AgentOpenChannel(k, ok)
    \/ \E k \in 1..MaxAgentChans, ok \in BOOLEAN : AgentAccept(k, ok)

SpecProxy == InitProxy /\ [][NextProxy]_vars

\* C18: the callback returns success only when the dial of this attempt has
\* returned without error, never while the dial is still running, and it
\* returns an error whenever the dial failed, a supplementary challenge
\* failed or an answer was rejected
C18_AuthOnlyAfterDial ==
    /\ cbRet = "success" => (dialPc \in {"assigned", "done"} /\ dialResult = "ok")
    /\ (cbPc = "done" /\ (dialResult = "failed" \/ challengeFailed)) => cbRet = "error"
\* success after a supplementary question was answered and the dial ended well
C18_Witness ==
    /\ cbRet = "success"
    /\ asked
    /\ dialResult = "ok"

DialErrorSent == \E c \in toClient : c.msg = "dial error"
\* C19: when the dial failed, its error text goes to the client, as a
\* trailing challenge with no questions, exactly when reportAuthErr is set;
\* with reporting off the text is never sent, questions asked or not
C19_ErrorTextOnlyWhenReporting ==
    /\ DialErrorSent => reportAuthErr
    /\ (cbPc = "done" /\ ~challengeFailed /\ dialResult = "failed" /\ reportAuthErr)
          => DialErrorSent

\* C20: with BlockAgent every auth-agent channel of the server is rejected
\* with Prohibited, nothing is opened toward the client and no copy or
\* request activity starts; without it the channel is driven by the four
\* activities of handleSshChannel with no filter
C20_AgentBlockedOrForwarded ==
    \A k \in 1..MaxAgentChans :
       /\ (blockAgent /\ agent[k].st \notin {"none", "requested"}) =>
             /\ agent[k].st = "rejected"
             /\ agent[k].reason = "Prohibited"
             /\ ~agent[k].clientOpen
             /\ agent[k].acts = {}
       /\ ~blockAgent =>
             /\ agent[k].st # "rejected"
             /\ agent[k].st = "forwarding" =>
                   /\ agent[k].acts = FourActivities
                   /\ ~agent[k].filtered
                   /\ agent[k].clientOpen
             /\ agent[k].st # "forwarding" => agent[k].acts = {}
\* every agent channel the server opened was rejected
C20_Witness ==
    /\ blockAgent
    /\ \A k \in 1..MaxAgentChans : agent[k].st = "rejected"

(***************************************************************************)
(* SpecCodec: WindowChange.Serialize followed by InterpretWindowChange     *)
(***************************************************************************)
\* widths and heights tried: small ones, the first whose product with 8
\* leaves 32 bits, and the largest
DimValues ==
    { U32(0, 0), U32(0, 1), U32(0, 80), U32(0, Half - 1), U32(1, 0),
      U32(Half \div 8 - 1, Half - 1), U32(Half \div 8, 0), U32(Half \div 8, 3),
      U32(Half \div 2, 7), U32(Half - 1, Half - 1) }

InitCodec ==
    /\ noPrediction = FALSE
    /\ fakeDelay = 0
    /\ chanType = "session"
    /\ ChanRest
    /\ EpochIdle
    /\ ReadIdle
    /\ AsynkIdle
    /\ AttemptIdle
    /\ TearIdle
    /\ LockIdle
    /\ RingIdle
    /\ SwitchIdle
    /\ ProxyIdle
    /\ wcIn \in [Width : DimValues, Height : DimValues]
    /\ wcBytes = <<>>
    /\ wcOut = ParseErr
    /\ wcPc = "new"

\* payload := wc.Serialize()
WcSerialize ==
    /\ wcPc = "new"
    /\ wcBytes' = Serialize(wcIn)
    /\ wcPc' = "serialized"
    /\ UNCHANGED <<wcIn, wcOut>>
    /\ UNCHANGED exceptCodec

\* InterpretWindowChange(payload)
WcInterpret ==
    /\ wcPc = "serialized"
    /\ wcOut' = InterpretWindowChange(wcBytes)
    /\ wcPc' = "parsed"
    /\ UNCHANGED <<wcIn, wcBytes>>
    /\ UNCHANGED exceptCodec

NextCodec ==
    \/ WcSerialize
    \/ WcInterpret

SpecCodec == InitCodec /\ [][NextCodec]_vars

\* p is 8 * v modulo 2^32: its low three bits are clear and the rest are
\* the low 29 bits of v
IsTimes8Mod32(p, v) ==
    /\ p.lo % 8 = 0
    /\ p.lo \div 8 + (p.hi % 8) * (Half \div 8) = v.lo
    /\ p.hi \div 8 = v.hi % (Half \div 8)

\* C21: InterpretWindowChange(w.Serialize()) gives no error and the Width
\* and Height of w, for every 32-bit value, and the pixel fields of the
\* serialisation are Width*8 and Height*8 modulo 2^32
C21_WindowChangeRoundTrip ==
    /\ wcPc # "new" =>
          /\ Len(wcBytes) = 16
          /\ \A i \in 1..16 : wcBytes[i] \in 0..255
          /\ IsTimes8Mod32(ReadU32(wcBytes, 9), wcIn.Width)
          /\ IsTimes8Mod32(ReadU32(wcBytes, 13), wcIn.Height)
    /\ wcPc = "parsed" =>
          /\ wcOut.ok
          /\ wcOut.width = wcIn.Width
          /\ wcOut.height = wcIn.Height
\* a width whose product with 8 does not fit 32 bits went through
C21_Witness ==
    /\ wcPc = "parsed"
    /\ wcIn.Width.hi >= Half \div 8
    /\ wcOut.width = wcIn.Width

(***************************************************************************)
(* Further claims settled under SpecChan                                   *)
(***************************************************************************)
\* io.Copy's Write call itself puts its bytes on the server-side channel:
\* they are released at the moment they are written
ReleasedAtWrite == copyPc = "write" /\ proxyChanData' # proxyChanData

\* C22: with -nopredict and -fakeDelay D > 0 a session channel is proxied
\* and every write toward the server passes through the ring delay shim, so
\* no byte reaches the server-side channel at the moment it is written
C22_DelayWithoutPrediction ==
    [][(noPrediction /\ fakeDelay > 0 /\ chanType = "session") => ~ReleasedAtWrite]_vars

(***************************************************************************)
(* SpecSwitch: the IoSwitch with one goroutine calling Enable and one      *)
(* calling Read, Write and Close                                           *)
(***************************************************************************)
\* the alternate streams handed to successive calls of Enable
Refractors == <<"r1", "r2">>
OpKinds == {"Read", "Write", "Close"}

\* Enable: if !ios.enabled
EnableAssignsAlways(en) == TRUE
EnableAssigns(en) == ~en

\* Enable(r) is called; its first statement reads ios.enabled
EnableCheck ==
    /\ enPc = "idle"
    /\ enStarted < Len(Refractors)
    /\ enStarted' = enStarted + 1
    /\ enArg' = Refractors[enStarted + 1]
    /\ IF EnableAssigns(swEnabled)
       THEN /\ enPc' = "refractor"
            /\ UNCHANGED enDone
       ELSE /\ enPc' = "idle"
            /\ enDone' = enDone + 1
    /\ UNCHANGED <<refractor, swEnabled, opPc, opKind, opPhase, opCount, swLog>>
    /\ UNCHANGED exceptSwitch

\* Enable: ios.refractor = refractor
EnableSetRefractor ==
    /\ enPc = "refractor"
    /\ refractor' = enArg
    /\ enPc' = "enabled"
    /\ UNCHANGED <<swEnabled, enArg, enStarted, enDone, opPc, opKind, opPhase, opCount,
                   swLog>>
    /\ UNCHANGED exceptSwitch

\* Enable: ios.enabled = true, and the call returns
EnableSetEnabled ==
    /\ enPc = "enabled"
    /\ swEnabled' = TRUE
    /\ enPc' = "idle"
    /\ enDone' = enDone + 1
    /\ UNCHANGED <<refractor, enArg, enStarted, opPc, opKind, opPhase, opCount, swLog>>
    /\ UNCHANGED exceptSwitch

\* where a call stands with respect to Enable when it starts to run
Phase == IF enStarted = 0 THEN "before"
         ELSE IF enDone > 0 THEN "after" ELSE "during"

\* Read, Write or Close is invoked: if ios.enabled ... else the call goes to
\* ios.passthrough
OpCheck(kind) ==
    /\ opPc = "idle"
    /\ opCount < MaxOps
    /\ opCount' = opCount + 1
    /\ IF swEnabled
       THEN /\ opPc' = "refractor"
            /\ opKind' = kind
            /\ opPhase' = Phase
            /\ UNCHANGED swLog
       ELSE /\ swLog' = swLog \cup {[kind |-> kind, phase |-> Phase, to |-> "passthrough"]}
            /\ UNCHANGED <<opPc, opKind, opPhase>>
    /\ UNCHANGED <<refractor, swEnabled, enPc, enArg, enStarted, enDone>>
    /\ UNCHANGED exceptSwitch

\* the enabled branch: return ios.refractor.Read(p) (Write, Close)
OpRefractor ==
    /\ opPc = "refractor"
    /\ swLog' = swLog \cup {[kind |-> opKind, phase |-> opPhase, to |-> refractor]}
    /\ opPc' = "idle"
    /\ opKind' = "none"
    /\ opPhase' = "none"
    /\ UNCHANGED <<refractor, swEnabled, enPc, enArg, enStarted, enDone, opCount>>
    /\ UNCHANGED exceptSwitch

InitSwitch ==
    /\ noPrediction = FALSE
    /\ fakeDelay = 0
    /\ chanType = "session"
    /\ ChanRest
    /\ EpochIdle
    /\ ReadIdle
    /\ AsynkIdle
    /\ AttemptIdle
    /\ TearIdle
    /\ LockIdle
    /\ RingIdle
    /\ ProxyIdle
    /\ CodecIdle
    /\ SwitchIdle

NextSwitch ==
    \/ EnableCheck
    \/ EnableSetRefractor
    \/ EnableSetEnabled
    \/ \E kind \in OpKinds : OpCheck(kind)
    \/ OpRefractor

SpecSwitch == InitSwitch /\ [][NextSwitch]_vars

\* C23: a Read, Write or Close invoked before Enable goes to the
\* passthrough stream only, one invoked after Enable(r) returned goes to r
\* only, and a later Enable(r2) does not replace r
C23_SwitchDispatch ==
    /\ \A c \in swLog :
          /\ c.phase = "before" => c.to = "passthrough"
          /\ c.phase = "after" => c.to = Refractors[1]
    /\ refractor \in {"nil", Refractors[1]}
\* calls of each side of a completed pair of Enable calls were dispatched
C23_Witness ==
    /\ enDone = Len(Refractors)
    /\ \E c \in swLog : c.phase = "before"
    /\ \E c \in swLog : c.phase = "after" /\ c.kind = "Close"
    /\ opCount = MaxOps /\ opPc = "idle"

\* ---------------------------------------------------------------------
\* SpecRing: the RingDelayer of delay.go on its own: concurrent callers of
\* Write, the worker goroutine RingDelay starts, one caller of Close and
\* the passing of time. A slot of the ring holds the ordinal of the Write
\* call whose copied buffer it carries, 0 for nil; a send time is the number
\* of ticks still to pass before it is reached. The fields termination,
\* ring and the notification channel are shared without a common lock,
\* so every access outside the mutex is a step of its own.
\* ---------------------------------------------------------------------

\* sections run under rd.cond.L are single steps, so the mutex is free
\* at every step boundary
NextSlot(i) == (i + 1) % RingSize

\* the worker's test before time.Sleep
WorkerSleepsNever(wait) == FALSE
WorkerSleeps(wait) == wait > 0

\* Write: the first termination test, then now.Add(rd.delay)
RingWriteCall(w) ==
    /\ ~rdPanicked
    /\ wrPc[w] = "idle"
    /\ rdCalls < MaxRingWrites
    /\ rdCalls' = rdCalls + 1
    /\ IF termination # "nil"
         THEN /\ wrRet' = [wrRet EXCEPT ![w] = "err"]
              /\ UNCHANGED <<wrPc, wrP, wrSendTime>>
         ELSE /\ wrRet' = [wrRet EXCEPT ![w] = "none"]
              /\ wrPc' = [wrPc EXCEPT ![w] = "lock"]
              /\ wrP' = [wrP EXCEPT ![w] = rdCalls + 1]
              /\ wrSendTime' = [wrSendTime EXCEPT ![w] = rdDelay]
    /\ UNCHANGED <<rdDelay, rdRing, sendTime, head, tail, termination, notifyChan,
                   notifyChanClosed, upstreamClosed, wkrPc, wkrBuffer, wkrWait,
                   wkrErr, rcPc, rdPanicked, rdEnqueued, rdHanded>>
    /\ UNCHANGED exceptRing

\* Write's loop test: for rd.ring[rd.tail] != nil
SlotOccupiedNever(slot) == FALSE
SlotOccupied(slot) == slot # 0

\* Write under the lock: cond.Wait while the tail slot is occupied, else
\* the copy of p and its send time go into the tail slot
RingWriteLock(w) ==
    /\ ~rdPanicked
    /\ wrPc[w] = "lock"
    /\ IF SlotOccupied(rdRing[tail])
         THEN /\ wrPc' = [wrPc EXCEPT ![w] = "wait"]
              /\ UNCHANGED <<rdRing, sendTime, tail, wrP, wrSendTime, rdEnqueued>>
         ELSE /\ rdRing' = [rdRing EXCEPT ![tail] = wrP[w]]
              /\ sendTime' = [sendTime EXCEPT ![tail] = wrSendTime[w]]
              /\ tail' = NextSlot(tail)
              /\ rdEnqueued' = Append(rdEnqueued, wrP[w])
              /\ wrP' = [wrP EXCEPT ![w] = 0]
              /\ wrSendTime' = [wrSendTime EXCEPT ![w] = 0]
              /\ wrPc' = [wrPc EXCEPT ![w] = "check"]
    /\ UNCHANGED <<rdDelay, head, termination, notifyChan, notifyChanClosed,
                   upstreamClosed, wrRet, rdCalls, wkrPc, wkrBuffer, wkrWait,
                   wkrErr, rcPc, rdPanicked, rdHanded>>
    /\ UNCHANGED exceptRing

\* Write: the second termination test, after the unlock
RingWriteCheck(w) ==
    /\ ~rdPanicked
    /\ wrPc[w] = "check"
    /\ IF termination # "nil"
         THEN /\ wrRet' = [wrRet EXCEPT ![w] = "err"]
              /\ wrPc' = [wrPc EXCEPT ![w] = "idle"]
         ELSE /\ wrPc' = [wrPc EXCEPT ![w] = "send"]
              /\ UNCHANGED wrRet
    /\ UNCHANGED <<rdDelay, rdRing, sendTime, head, tail, termination, notifyChan,
                   notifyChanClosed, upstreamClosed, wrP, wrSendTime, rdCalls,
                   wkrPc, wkrBuffer, wkrWait, wkrErr, rcPc, rdPanicked, rdEnqueued,
                   rdHanded>>
    /\ UNCHANGED exceptRing

\* Write: rd.notifyChan <- true; a send on a closed channel panics, a send
\* on a full one blocks
RingWriteSend(w) ==
    /\ ~rdPanicked
    /\ wrPc[w] = "send"
    /\ notifyChanClosed \/ notifyChan < RingSize
    /\ IF notifyChanClosed
         THEN /\ rdPanicked' = TRUE
              /\ UNCHANGED <<notifyChan, wrPc>>
         ELSE /\ notifyChan' = notifyChan + 1
              /\ wrPc' = [wrPc EXCEPT ![w] = "ret"]
              /\ UNCHANGED rdPanicked
    /\ UNCHANGED <<rdDelay, rdRing, sendTime, head, tail, termination,
                   notifyChanClosed, upstreamClosed, wrP, wrSendTime, wrRet,
                   rdCalls, wkrPc, wkrBuffer, wkrWait, wkrErr, rcPc, rdEnqueued,
                   rdHanded>>
    /\ UNCHANGED exceptRing

\* Write: return len(p), rd.termination
RingWriteReturn(w) ==
    /\ ~rdPanicked
    /\ wrPc[w] = "ret"
    /\ wrRet' = [wrRet EXCEPT ![w] = IF termination = "nil" THEN "ok" ELSE "err"]
    /\ wrPc' = [wrPc EXCEPT ![w] = "idle"]
    /\ UNCHANGED <<rdDelay, rdRing, sendTime, head, tail, termination, notifyChan,
                   notifyChanClosed, upstreamClosed, wrP, wrSendTime, rdCalls,
                   wkrPc, wkrBuffer, wkrWait, wkrErr, rcPc, rdPanicked, rdEnqueued,
                   rdHanded>>
    /\ UNCHANGED exceptRing

\* the worker's for range rd.notifyChan: takes one notification, or leaves
\* the loop once the channel is closed and drained
RingWorkerRecv ==
    /\ ~rdPanicked
    /\ wkrPc = "recv"
    /\ notifyChan > 0 \/ notifyChanClosed
    /\ IF notifyChan > 0
         THEN /\ notifyChan' = notifyChan - 1
              /\ wkrPc' = "peek"
         ELSE /\ wkrPc' = "exit"
              /\ UNCHANGED notifyChan
    /\ UNCHANGED <<rdDelay, rdRing, sendTime, head, tail, termination,
                   notifyChanClosed, upstreamClosed, wrPc, wrP, wrSendTime, wrRet,
                   rdCalls, wkrBuffer, wkrWait, wkrErr, rcPc, rdPanicked, rdEnqueued,
                   rdHanded>>
    /\ UNCHANGED exceptRing

\* the worker, still under the lock or having slept: rd.ring[rd.head] = nil,
\* the head moves on and rd.cond.Signal() wakes one waiting writer, if any
Advance ==
    /\ rdRing' = [rdRing EXCEPT ![head] = 0]
    /\ sendTime' = [sendTime EXCEPT ![head] = 0]
    /\ head' = NextSlot(head)
    /\ IF \E w \in RingWriters : wrPc[w] = "wait"
         THEN \E w \in RingWriters :
                 /\ wrPc[w] = "wait"
                 /\ wrPc' = [wrPc EXCEPT ![w] = "lock"]
         ELSE UNCHANGED wrPc
    /\ wkrPc' = "write"

\* the worker under the lock: reads the head's send time and buffer, and
\* unlocks to sleep if the send time is still ahead
RingWorkerPeek ==
    /\ ~rdPanicked
    /\ wkrPc = "peek"
    /\ wkrBuffer' = rdRing[head]
    /\ wkrWait' = sendTime[head]
    /\ IF WorkerSleeps(sendTime[head])
         THEN /\ wkrPc' = "sleep"
              /\ UNCHANGED <<rdRing, sendTime, head, wrPc>>
         ELSE Advance
    /\ UNCHANGED <<rdDelay, tail, termination, notifyChan, notifyChanClosed,
                   upstreamClosed, wrP, wrSendTime, wrRet, rdCalls, wkrErr, rcPc,
                   rdPanicked, rdEnqueued, rdHanded>>
    /\ UNCHANGED exceptRing

\* the worker: time.Sleep(wait) has returned, the lock is taken again
RingWorkerWake ==
    /\ ~rdPanicked
    /\ wkrPc = "sleep"
    /\ wkrWait = 0
    /\ Advance
    /\ UNCHANGED <<rdDelay, tail, termination, notifyChan, notifyChanClosed,
                   upstreamClosed, wrP, wrSendTime, wrRet, rdCalls, wkrBuffer,
                   wkrWait, wkrErr, rcPc, rdPanicked, rdEnqueued, rdHanded>>
    /\ UNCHANGED exceptRing

\* the worker: rd.upstream.Write(buffer); a closed upstream refuses it
RingWorkerWrite ==
    /\ ~rdPanicked
    /\ wkrPc = "write"
    /\ rdHanded' = Append(rdHanded, wkrBuffer)
    /\ \E ok \in (IF upstreamClosed THEN {FALSE} ELSE {TRUE, FALSE}) :
          wkrErr' = ~ok
    /\ wkrPc' = "post"
    /\ UNCHANGED <<rdDelay, rdRing, sendTime, head, tail, termination, notifyChan,
                   notifyChanClosed, upstreamClosed, wrPc, wrP, wrSendTime, wrRet,
                   rdCalls, wkrBuffer, wkrWait, rcPc, rdPanicked, rdEnqueued>>
    /\ UNCHANGED exceptRing

\* the worker under the lock after the write: on an error it records the
\* termination and closes the notification channel; closing a closed
\* channel panics
RingWorkerPost ==
    /\ ~rdPanicked
    /\ wkrPc = "post"
    /\ IF wkrErr
         THEN /\ termination' = "err"
              /\ IF notifyChanClosed
                   THEN /\ rdPanicked' = TRUE
                        /\ UNCHANGED <<notifyChanClosed, wkrPc>>
                   ELSE /\ notifyChanClosed' = TRUE
                        /\ wkrPc' = "recv"
                        /\ UNCHANGED rdPanicked
         ELSE /\ wkrPc' = "recv"
              /\ UNCHANGED <<termination, notifyChanClosed, rdPanicked>>
    /\ wkrBuffer' = 0
    /\ wkrWait' = 0
    /\ wkrErr' = FALSE
    /\ UNCHANGED <<rdDelay, rdRing, sendTime, head, tail, notifyChan,
                   upstreamClosed, wrPc, wrP, wrSendTime, wrRet, rdCalls, rcPc,
                   rdEnqueued, rdHanded>>
    /\ UNCHANGED exceptRing

\* Close: if rd.termination != nil { return rd.termination }
RingCloseCheck ==
    /\ ~rdPanicked
    /\ rcPc = "idle"
    /\ rcPc' = IF termination # "nil" THEN "done" ELSE "set"
    /\ UNCHANGED <<rdDelay, rdRing, sendTime, head, tail, termination, notifyChan,
                   notifyChanClosed, upstreamClosed, wrPc, wrP, wrSendTime, wrRet,
                   rdCalls, wkrPc, wkrBuffer, wkrWait, wkrErr, rdPanicked,
                   rdEnqueued, rdHanded>>
    /\ UNCHANGED exceptRing

\* Close: rd.termination = io.EOF
RingCloseSet ==
    /\ ~rdPanicked
    /\ rcPc = "set"
    /\ termination' = "EOF"
    /\ rcPc' = "chan"
    /\ UNCHANGED <<rdDelay, rdRing, sendTime, head, tail, notifyChan,
                   notifyChanClosed, upstreamClosed, wrPc, wrP, wrSendTime, wrRet,
                   rdCalls, wkrPc, wkrBuffer, wkrWait, wkrErr, rdPanicked,
                   rdEnqueued, rdHanded>>
    /\ UNCHANGED exceptRing

\* Close: close(rd.notifyChan)
RingCloseChan ==
    /\ ~rdPanicked
    /\ rcPc = "chan"
    /\ IF notifyChanClosed
         THEN /\ rdPanicked' = TRUE
              /\ UNCHANGED <<notifyChanClosed, rcPc>>
         ELSE /\ notifyChanClosed' = TRUE
              /\ rcPc' = "up"
              /\ UNCHANGED rdPanicked
    /\ UNCHANGED <<rdDelay, rdRing, sendTime, head, tail, termination, notifyChan,
                   upstreamClosed, wrPc, wrP, wrSendTime, wrRet, rdCalls, wkrPc,
                   wkrBuffer, wkrWait, wkrErr, rdEnqueued, rdHanded>>
    /\ UNCHANGED exceptRing

\* Close: return rd.upstream.Close()
RingCloseUpstream ==
    /\ ~rdPanicked
    /\ rcPc = "up"
    /\ upstreamClosed' = TRUE
    /\ rcPc' = "done"
    /\ UNCHANGED <<rdDelay, rdRing, sendTime, head, tail, termination, notifyChan,
                   notifyChanClosed, wrPc, wrP, wrSendTime, wrRet, rdCalls, wkrPc,
                   wkrBuffer, wkrWait, wkrErr, rdPanicked, rdEnqueued, rdHanded>>
    /\ UNCHANGED exceptRing

\* one tick of time passes: every send time still ahead comes one closer
Closer(t) == IF t > 0 THEN t - 1 ELSE 0

RingTick ==
    /\ ~rdPanicked
    /\ \/ \E i \in RingSlots : sendTime[i] > 0
       \/ \E w \in RingWriters : wrSendTime[w] > 0
       \/ wkrWait > 0
    /\ sendTime' = [i \in RingSlots |-> Closer(sendTime[i])]
    /\ wrSendTime' = [w \in RingWriters |-> Closer(wrSendTime[w])]
    /\ wkrWait' = Closer(wkrWait)
    /\ UNCHANGED <<rdDelay, rdRing, head, tail, termination, notifyChan,
                   notifyChanClosed, upstreamClosed, wrPc, wrP, wrRet, rdCalls,
                   wkrPc, wkrBuffer, wkrErr, rcPc, rdPanicked, rdEnqueued, rdHanded>>
    /\ UNCHANGED exceptRing

InitRing ==
    /\ noPrediction = FALSE
    /\ fakeDelay = 0
    /\ chanType = "session"
    /\ ChanRest
    /\ EpochIdle
    /\ ReadIdle
    /\ AsynkIdle
    /\ AttemptIdle
    /\ TearIdle
    /\ LockIdle
    /\ ProxyIdle
    /\ CodecIdle
    /\ SwitchIdle
    /\ rdDelay \in 0 .. MaxRingDelay
    /\ RingRest

NextRing ==
    \/ \E w \in RingWriters : RingWriteCall(w)
    \/ \E w \in RingWriters : RingWriteLock(w)
    \/ \E w \in RingWriters : RingWriteCheck(w)
    \/ \E w \in RingWriters : RingWriteSend(w)
    \/ \E w \in RingWriters : RingWriteReturn(w)
    \/ RingWorkerRecv
    \/ RingWorkerPeek
    \/ RingWorkerWake
    \/ RingWorkerWrite
    \/ RingWorkerPost
    \/ RingCloseCheck
    \/ RingCloseSet
    \/ RingCloseChan
    \/ RingCloseUpstream
    \/ RingTick

SpecRing == InitRing /\ [][NextRing]_vars

\* nothing of the RingDelayer is in progress and it never terminated
RingQuiet ==
    /\ termination = "nil"
    /\ ~rdPanicked
    /\ \A w \in RingWriters : wrPc[w] = "idle"
    /\ notifyChan = 0
    /\ wkrPc = "recv"

CloseApplied == \E e \in Epochs : closeCalls'[e] > closeCalls[e]

\* no Epochal.Write is between taking its epoch number and SpeculateEpoch
NoEpochOpening == \A c \in Callers : wpc[c] # "gen"

\* C25: right after an epoch close is applied, pendingEpoch is false
\* exactly when no opened epoch remains unclosed (no epoch being in the
\* course of opening at that moment)
C25_PendingFlagMatchesOpenEpochs ==
    [][(CloseApplied /\ NoEpochOpening)
          => (pendingEpoch' = FALSE <=> OpenEpochs' = {})]_vars

\* the pump passes its test of pendingEpoch after a chunk was performed
PumpCommits == pumpPc = "commit" /\ pumpPc' = "read"

\* no Epochal.Write is in progress
NoWriteInProgress == \A c \in Callers : wpc[c] = "idle"

\* C26: server output that the pump has performed while no epoch is open
\* (none opened and unclosed, none about to be opened) becomes the
\* completeRemoteState from which Read computes what it sends to the client
C26_OutputCommittedWhenNoEpochOpen ==
    [][(PumpCommits /\ OpenEpochs = {} /\ NoWriteInProgress)
          => completeRemoteState' = pendingRemoteState]_vars

\* ---------------------------------------------------------------------
\* Further claims settled under SpecRead
\* ---------------------------------------------------------------------

\* C27: no update notification is lost: the reader never sits in the
\* select, waiting for a notification, while a notification that a
\* notifier could not hand over is flagged in droppedUpdate (from there no
\* step of the reader is possible, and the frame for that event is emitted
\* only if some later event happens to wake the reader)
C27_NoNotificationLost == ~(rdPc = "wait" /\ droppedUpdate)

\* ---------------------------------------------------------------------
\* SpecPumpFair: Read called in a loop by the server-to-client copy and
\* the pump, with no client input, no Resize and no Close. The copy and
\* the pump are goroutines the scheduler keeps running: each takes its
\* next step when it has one. Server output and the server's EOF are
\* events that may or may not come.
\* ---------------------------------------------------------------------
ReaderStep ==
    \/ \E sz \in BufSizes : ReadCall(sz)
    \/ ReadPending
    \/ ReadCheckOpened
    \/ ReadOpen
    \/ ReadCheckErr
    \/ ReadCheckDropped
    \/ ReadSelect
    \/ ReadFrame

PumpErrStep ==
    \/ \E err \in {"EOF", "closed by peer"} : PumpErrSet(err)
    \/ PumpErrNotify

NextPump ==
    \/ ReaderStep
    \/ UpstreamUpdate
    \/ ServerEOF
    \/ PumpErrStep

SpecPumpFair ==
    InitRead /\ [][NextPump]_vars /\ WF_readVars(ReaderStep) /\ WF_readVars(PumpErrStep)

\* C28: once the server's stream has ended, a Read eventually returns an
\* error to the server-to-client copy, with no further client input (or
\* the frames this model follows are used up first)
C28_ReadFailsAfterServerEOF ==
    (upstream # "open") ~> (lastRet.err # "nil" \/ frames = MaxFrames)

\* ---------------------------------------------------------------------
\* Further claims about the end of the stream (SpecRead)
\* ---------------------------------------------------------------------

\* the sequence q ends with the sequence s
EndsWith(q, s) ==
    /\ Len(q) >= Len(s)
    /\ SubSeq(q, Len(q) - Len(s) + 1, Len(q)) = s

\* C29: when Read returns the upstream's EOF, the whole of display.Close()
\* has been returned to the caller, by that Read or by the Reads before it
C29_EpilogueWithEOF == lastRet.err = "EOF" => EndsWith(out, DisplayClose)

\* ---------------------------------------------------------------------
\* SpecSticky: the interposer's write path after an upstream error: the
\* pump meeting the end or the failure of the server's stream, and
\* Interposer.Write followed into the Asynk sink and its drainer. No Read
\* is in progress, so every notification is a dropped one.
\* ---------------------------------------------------------------------

\* Interposer.Write as a whole: the user bytes are given to the predictor
\* and the emulator, the reader is notified, and the emulator's len bytes
\* for the host are passed on in return i.upstreamAsynk.Write(...)
InterposerWriteSink(repaint, len) ==
    /\ InterposerWriteNotify(repaint)
    /\ AsynkWriteEnter(len)
    /\ UNCHANGED <<chanVars, epochVars, proxyVars, codecVars, switchVars, ringVars, lockVars, tearVars,
                   attemptVars>>

NextSticky ==
    \/ ServerEOF
    \/ PumpErrStep
    \/ \E repaint \in BOOLEAN : \E len \in 0..MaxWriteLen :
          InterposerWriteSink(repaint, len)
    \/ AsynkWriteCheck
    \/ AsynkWriteCopy
    \/ AsynkWriteNotify
    \/ AsynkWriteWait
    \/ DrainStep
    \/ AsynkUpstreamFail

SpecSticky == InitRead /\ [][NextSticky]_vars

\* the errors other than io.EOF that the pump's upstream.Read returns
IoErrors == {"closed by peer"}

\* C30: once the pump has recorded an I/O error e other than EOF, a Write
\* called from then on with bytes for the host returns e without having
\* accepted any of them
C30_StickyError ==
    [][(WriteReturns /\ awAfterErr \in IoErrors /\ awLen > 0)
          => (awRet'.n = 0 /\ awRet'.err = awAfterErr)]_vars

(***************************************************************************)
(* SpecLock: the emulator mutex of one Interposer (part_007).  Each call   *)
(* on the predictor and each access to pendingRemoteState or               *)
(* completeRemoteState is a position of the goroutine that makes it, so    *)
(* two goroutines inside such calls at once are a state of the model.      *)
(***************************************************************************)
\* positions at which a goroutine is inside a call on the predictor
PredictorCalls ==
    { "LocalFrameSent", "LocalFrameAcked", "LocalFrameLateAcked", "Cull", "Apply",
      "NewUserByte", "Reset", "viewCull", "viewApply" }

\* positions at which a goroutine reads or writes pendingRemoteState or
\* completeRemoteState
FramebufferAccesses == { "copyPending", "perform", "commit", "copyComplete" }

\* goroutine g moves from one position to the next
Go(g, from, to) ==
    /\ gPc[g] = from
    /\ gPc' = [gPc EXCEPT ![g] = to]

\* i.emulatorMutex.Lock() by g, entering position `to`
LockedGo(g, from, to) ==
    /\ emulatorMutex = "free"
    /\ emulatorMutex' = g
    /\ Go(g, from, to)

\* i.emulatorMutex.Unlock() by g
UnlockedGo(g, from, to) ==
    /\ emulatorMutex = g
    /\ emulatorMutex' = "free"
    /\ Go(g, from, to)

\* a step of g that neither takes nor releases the mutex
PlainGo(g, from, to) ==
    /\ Go(g, from, to)
    /\ UNCHANGED emulatorMutex

\* SpeculateEpoch, reached from Epochal.Write in the drainer goroutine:
\* i.predictor.LocalFrameSent(epoch) with no lock taken
LockSpeculateEpoch ==
    /\ \/ PlainGo("drainer", "idle", "LocalFrameSent")
       \/ PlainGo("drainer", "LocalFrameSent", "idle")
    /\ UNCHANGED exceptLock

\* CompleteEpoch in a pong goroutine: Lock, LocalFrameAcked,
\* LocalFrameLateAcked, completeRemoteState = copy(pendingRemoteState), Unlock
LockCompleteEpoch ==
    /\ \/ LockedGo("pong", "idle", "LocalFrameAcked")
       \/ PlainGo("pong", "LocalFrameAcked", "LocalFrameLateAcked")
       \/ PlainGo("pong", "LocalFrameLateAcked", "copyPending")
       \/ UnlockedGo("pong", "copyPending", "idle")
    /\ UNCHANGED exceptLock

\* pullFromUpstream: Lock, Perform, pendingRemoteState = ..., Unlock; then a
\* write-back through Epochal.Write (SpeculateEpoch) when the emulator
\* answered, and completeRemoteState = copy(pendingRemoteState) when no epoch
\* is pending, both after the Unlock
LockPump ==
    /\ \/ LockedGo("pump", "idle", "perform")
       \/ UnlockedGo("pump", "perform", "unlocked")
       \/ PlainGo("pump", "unlocked", "LocalFrameSent")
       \/ PlainGo("pump", "LocalFrameSent", "hack")
       \/ PlainGo("pump", "unlocked", "hack")
       \/ PlainGo("pump", "hack", "commit")
       \/ PlainGo("pump", "hack", "idle")
       \/ PlainGo("pump", "commit", "idle")
    /\ UNCHANGED exceptLock

\* Read, emitting a frame: Lock, copy of completeRemoteState, Cull, Apply,
\* Unlock
LockRead ==
    /\ \/ LockedGo("reader", "idle", "copyComplete")
       \/ PlainGo("reader", "copyComplete", "Cull")
       \/ PlainGo("reader", "Cull", "Apply")
       \/ UnlockedGo("reader", "Apply", "idle")
    /\ UNCHANGED exceptLock

\* Interposer.Write: Lock, NewUserByte for each byte, Unlock
LockWrite ==
    /\ \/ LockedGo("writer", "idle", "NewUserByte")
       \/ UnlockedGo("writer", "NewUserByte", "idle")
    /\ UNCHANGED exceptLock

\* Resize: Lock, emulator.Act(resize), predictor.Reset(), deferred Unlock
LockResize ==
    /\ \/ LockedGo("resizer", "idle", "Reset")
       \/ UnlockedGo("resizer", "Reset", "idle")
    /\ UNCHANGED exceptLock

\* CurrentContents(false): Lock, copy of the emulator's framebuffer, Unlock;
\* then Cull and Apply on the copy
LockCurrentContents ==
    /\ \/ LockedGo("viewer", "idle", "fb")
       \/ UnlockedGo("viewer", "fb", "unlocked")
       \/ PlainGo("viewer", "unlocked", "viewCull")
       \/ PlainGo("viewer", "viewCull", "viewApply")
       \/ PlainGo("viewer", "viewApply", "idle")
    /\ UNCHANGED exceptLock

InitLock ==
    /\ noPrediction = FALSE
    /\ fakeDelay = 0
    /\ chanType = "session"
    /\ ChanRest
    /\ EpochIdle
    /\ ReadIdle
    /\ AsynkIdle
    /\ AttemptIdle
    /\ TearIdle
    /\ LockIdle
    /\ ProxyIdle
    /\ CodecIdle
    /\ SwitchIdle
    /\ RingIdle

NextLock ==
    \/ LockSpeculateEpoch
    \/ LockCompleteEpoch
    \/ LockPump
    \/ LockRead
    \/ LockWrite
    \/ LockResize
    \/ LockCurrentContents

SpecLock == InitLock /\ [][NextLock]_vars

\* the goroutines inside a call on the predictor
InPredictor == { g \in Goroutines : gPc[g] \in PredictorCalls }

\* the goroutines reading or writing one of the two remote framebuffers
OnFramebuffers == { g \in Goroutines : gPc[g] \in FramebufferAccesses }

\* C31: every call on the predictor and every access to pendingRemoteState or
\* completeRemoteState is made by the goroutine that holds the emulator
\* mutex; checked through what follows from it: no two goroutines are inside
\* calls on the predictor at once, and none is inside one or on a remote
\* framebuffer while another goroutine is on a remote framebuffer.
C31_PredictorUnderMutex ==
    /\ Cardinality(InPredictor) <= 1
    /\ \A g \in OnFramebuffers : InPredictor \cup OnFramebuffers = {g}

(***************************************************************************)
(* The end of a channel pair (handleSshChannel, part_010 lines 236-261):   *)
(* the steps of the two copy goroutines and of the two request goroutines  *)
(* after their loops ended, over the positions of the four goroutines.     *)
(***************************************************************************)
\* io.Copy(copyTarget, clientChan) returned: the client sent EOF or a write
\* failed
C2sCopyEnds ==
    /\ c2sPc = "copy"
    /\ c2sPc' = "closeWrite"
    /\ UNCHANGED <<s2cPc, creqPc, sreqPc, clientClosed, serverClosed, proxyChanCloses,
                   clientChanCloses, copyTargetCloses>>

\* _ = proxyChan.CloseWrite()
C2sCloseWrite ==
    /\ c2sPc = "closeWrite"
    /\ c2sPc' = "signal"
    /\ UNCHANGED <<s2cPc, creqPc, sreqPc, clientClosed, serverClosed, proxyChanCloses,
                   clientChanCloses, copyTargetCloses>>

\* close(clientClosed)
C2sSignal ==
    /\ c2sPc = "signal"
    /\ c2sPc' = "done"
    /\ clientClosed' = TRUE
    /\ UNCHANGED <<s2cPc, creqPc, sreqPc, serverClosed, proxyChanCloses,
                   clientChanCloses, copyTargetCloses>>

\* clientRequestSink(proxyChan, clientReqs) returned: the client's request
\* stream ended
CreqEnds ==
    /\ creqPc = "reqs"
    /\ creqPc' = "wait"
    /\ UNCHANGED <<c2sPc, s2cPc, sreqPc, clientClosed, serverClosed, proxyChanCloses,
                   clientChanCloses, copyTargetCloses>>

\* a receive from a channel that is only ever closed returns once it is closed
ReceivesAlways(closed) == TRUE
Receives(closed) == closed

\* <-clientClosed
CreqWait ==
    /\ creqPc = "wait"
    /\ Receives(clientClosed)
    /\ creqPc' = "close"
    /\ UNCHANGED <<c2sPc, s2cPc, sreqPc, clientClosed, serverClosed, proxyChanCloses,
                   clientChanCloses, copyTargetCloses>>

\* _ = proxyChan.Close()
CreqCloseProxyChan ==
    /\ creqPc = "close"
    /\ creqPc' = "closeTarget"
    /\ proxyChanCloses' = proxyChanCloses + 1
    /\ UNCHANGED <<c2sPc, s2cPc, sreqPc, clientClosed, serverClosed, clientChanCloses,
                   copyTargetCloses>>

\* if copyTarget != proxyChan { _ = copyTarget.Close() }: the call is entered
CreqCloseTarget ==
    /\ creqPc = "closeTarget"
    /\ creqPc' = "closing"
    /\ copyTargetCloses' = copyTargetCloses + 1
    /\ UNCHANGED <<c2sPc, s2cPc, sreqPc, clientClosed, serverClosed, proxyChanCloses,
                   clientChanCloses>>

\* copyTarget.Close() returned and the goroutine ends
CreqDone ==
    /\ creqPc \in {"closing", "forwarded"}
    /\ creqPc' = "done"
    /\ UNCHANGED <<c2sPc, s2cPc, sreqPc, clientClosed, serverClosed, proxyChanCloses,
                   clientChanCloses, copyTargetCloses>>

(***************************************************************************)
(* SpecDrain: a session channel with prediction at the end of the          *)
(* client-to-server copy.  copyTarget is the Interposer, whose Write ends  *)
(* in Asynk.Write and whose Close ends in Asynk.Close; the Asynk's         *)
(* upstream leads to the server-side channel.                              *)
(***************************************************************************)
exceptDrain == <<chanVars, epochVars, readVars, proxyVars, codecVars, switchVars, ringVars, lockVars, attemptVars>>
exceptAttempt == <<chanVars, epochVars, readVars, asynkVars, proxyVars, codecVars, switchVars, ringVars, lockVars, tearVars>>

\* the server-side channel stops taking writes (CloseWrite) or is closed
SinkUpstreamBecomes(state) ==
    /\ sinkUpstream' = state
    /\ UNCHANGED <<buffer, bufferIndex, writeNotify, notifyClosed, upstreamErr,
                   lastTransmittedIndex, nextIndex, drPc, awPc, awRem, awN, awLen,
                   awAfterClose, awAfterErr, awRet, awCalls, accepted, delivered,
                   panicked, acPc, acCloses>>

\* io.Copy hands a chunk read from the client to copyTarget.Write
DrainCopyWrite(len) ==
    /\ c2sPc = "copy"
    /\ AsynkWriteCall(len)

\* io.Copy returns once its last Write returned
DrainCopyEnds ==
    /\ awPc = "idle"
    /\ C2sCopyEnds
    /\ UNCHANGED asynkVars
    /\ UNCHANGED exceptDrain

\* proxyChan.CloseWrite(): later writes to the server-side channel fail
DrainCloseWrite ==
    /\ C2sCloseWrite
    /\ SinkUpstreamBecomes(IF sinkUpstream = "open" THEN "writeClosed" ELSE sinkUpstream)
    /\ UNCHANGED exceptDrain

DrainSignal ==
    /\ C2sSignal
    /\ UNCHANGED asynkVars
    /\ UNCHANGED exceptDrain

DrainReqsEnd ==
    /\ CreqEnds
    /\ UNCHANGED asynkVars
    /\ UNCHANGED exceptDrain

DrainWait ==
    /\ CreqWait
    /\ UNCHANGED asynkVars
    /\ UNCHANGED exceptDrain

\* proxyChan.Close()
DrainCloseProxyChan ==
    /\ CreqCloseProxyChan
    /\ SinkUpstreamBecomes("closed")
    /\ UNCHANGED exceptDrain

\* copyTarget.Close() is Interposer.Close, which calls i.upstreamAsynk.Close()
DrainCloseTarget ==
    /\ CreqCloseTarget
    /\ UNCHANGED asynkVars
    /\ UNCHANGED exceptDrain

\* the steps of Asynk.Close, made by the request goroutine inside
\* Interposer.Close
DrainAsynkClose ==
    /\ creqPc = "closing"
    /\ acCloses = 0
    /\ \/ AsynkCloseSetErr
       \/ AsynkCloseChan
       \/ AsynkCloseBroadcast
       \/ AsynkCloseUpstream

\* Interposer.Close returned
DrainClosed ==
    /\ acCloses > 0
    /\ acPc = "idle"
    /\ CreqDone
    /\ UNCHANGED asynkVars
    /\ UNCHANGED exceptDrain

NextDrain ==
    \/ \E len \in 1..MaxWriteLen : DrainCopyWrite(len)
    \/ AsynkWriteCheck
    \/ AsynkWriteCopy
    \/ AsynkWriteNotify
    \/ AsynkWriteWait
    \/ DrainStep
    \/ DrainCopyEnds
    \/ DrainCloseWrite
    \/ DrainSignal
    \/ DrainReqsEnd
    \/ DrainWait
    \/ DrainCloseProxyChan
    \/ DrainCloseTarget
    \/ DrainAsynkClose
    \/ DrainClosed

SpecDrain == InitAsynk /\ [][NextDrain]_vars

\* the server-side channel stops taking writes in this step
WriteSideCloses == sinkUpstream = "open" /\ sinkUpstream' # "open"

\* C34: every byte Interposer.Write accepted before the copy ended has been
\* written to the server-side channel when that channel's write side is
\* closed, by the copy goroutine's CloseWrite or by the Close that follows
\* it.
C34_DrainedBeforeClose ==
    [][WriteSideCloses => delivered = Accepted]_vars

(***************************************************************************)
(* Further claims settled under SpecRing                                   *)
(***************************************************************************)
\* Close hands over to rd.upstream.Close() while every call of Write has
\* returned, none of them with an error
ClosesUpstreamAfterWrites ==
    /\ rcPc = "up"
    /\ rcPc' = "done"
    /\ \A w \in RingWriters : wrPc[w] = "idle" /\ wrRet[w] # "err"

\* C35: RingDelayer.Close drains gracefully: the writes accepted before Close
\* have been handed to the upstream when Close closes the upstream, and in no
\* order of Close, the writers and the worker (with or without an upstream
\* write error) does the process crash: the notification channel is closed
\* at most once and never sent on after it was closed.
C35_CloseDrainsAndNeverCrashes ==
    /\ [](~rdPanicked)
    /\ [][ClosesUpstreamAfterWrites => rdHanded = rdEnqueued]_vars

\* The writers, the worker and the clock are scheduled fairly: each is a
\* goroutine (or the passing of time) that goes on when it can.
RingWriterStep ==
    \E w \in RingWriters :
        \/ RingWriteLock(w)
        \/ RingWriteCheck(w)
        \/ RingWriteSend(w)
        \/ RingWriteReturn(w)
RingWorkerStep ==
    RingWorkerRecv \/ RingWorkerPeek \/ RingWorkerWake \/ RingWorkerWrite \/ RingWorkerPost
\* the RingDelayer in use, nobody calling Close: the worker ends only on an
\* upstream error
NextRingRun ==
    \/ \E w \in RingWriters : RingWriteCall(w)
    \/ RingWriterStep
    \/ RingWorkerStep
    \/ RingTick

SpecRingFair ==
    /\ InitRing
    /\ [][NextRingRun]_vars
    /\ WF_ringVars(RingWriterStep)
    /\ WF_ringVars(RingWorkerStep)
    /\ WF_ringVars(RingTick)

\* the ring slots holding a write the worker has not taken yet
Occupied == { i \in RingSlots : SlotOccupied(rdRing[i]) }

\* a step that changes an occupied slot only empties it, and only the worker
\* does so, moving on to its upstream write
SlotKept(i) ==
    \/ rdRing'[i] = rdRing[i]
    \/ rdRing'[i] = 0 /\ wkrPc # "write" /\ wkrPc' = "write"

\* a writer leaves cond.Wait() only in a step in which the worker advanced
\* the head
ReleasedByWorker(w) ==
    (wrPc[w] = "wait" /\ wrPc'[w] # "wait") => (wkrPc # "write" /\ wkrPc' = "write")

\* the worker was not ended by Close or by an upstream error
WorkerRunning == termination = "nil" /\ ~rdPanicked

\* C36: with concurrent writers no ring slot is overwritten before the worker
\* took its write: a writer that finds the tail slot occupied waits until the
\* worker advanced the head, at most RingSize slots are occupied, no more
\* notifications are queued than slots are occupied, and a waiting writer is
\* eventually released while the worker keeps running.
C36_NoSlotOverwritten ==
    /\ [](Cardinality(Occupied) <= RingSize /\ notifyChan <= Cardinality(Occupied))
    /\ [][\A i \in Occupied : SlotKept(i)]_vars
    /\ [][\A w \in RingWriters : ReleasedByWorker(w)]_vars
    /\ \A w \in RingWriters :
          (wrPc[w] = "wait") ~> (wrPc[w] # "wait" \/ ~WorkerRunning)

\* the ring is full with the write of one caller, already notified, while the
\* other caller waits for the slot and the worker is running, having handed
\* an earlier write upstream
C36_Witness ==
    /\ WorkerRunning
    /\ wrPc["w2"] = "wait"
    /\ Cardinality(Occupied) = RingSize
    /\ notifyChan = RingSize
    /\ Len(rdHanded) >= 1

(***************************************************************************)
(* SpecTeardown: the four goroutines of handleSshChannel closing a channel *)
(* pair, with and without a replacement stream from the channel filter.    *)
(* proxyChanCloses counts the Close calls that reach the server-side       *)
(* channel, clientChanCloses those that reach the client-side channel.     *)
(***************************************************************************)
\* io.Copy(clientChan, copyTarget) returned
S2cCopyEnds ==
    /\ s2cPc = "copy"
    /\ s2cPc' = "closeWrite"
    /\ UNCHANGED <<c2sPc, creqPc, sreqPc, clientClosed, serverClosed, proxyChanCloses,
                   clientChanCloses, copyTargetCloses>>

\* _ = clientChan.CloseWrite()
S2cCloseWrite ==
    /\ s2cPc = "closeWrite"
    /\ s2cPc' = "signal"
    /\ UNCHANGED <<c2sPc, creqPc, sreqPc, clientClosed, serverClosed, proxyChanCloses,
                   clientChanCloses, copyTargetCloses>>

\* close(serverClosed)
S2cSignal ==
    /\ s2cPc = "signal"
    /\ s2cPc' = "done"
    /\ serverClosed' = TRUE
    /\ UNCHANGED <<c2sPc, creqPc, sreqPc, clientClosed, proxyChanCloses,
                   clientChanCloses, copyTargetCloses>>

\* reflectRequests(clientChan, proxyReqs) returned: the server's request
\* stream ended
SreqEnds ==
    /\ sreqPc = "reqs"
    /\ sreqPc' = "wait"
    /\ UNCHANGED <<c2sPc, s2cPc, creqPc, clientClosed, serverClosed, proxyChanCloses,
                   clientChanCloses, copyTargetCloses>>

\* <-serverClosed
SreqWait ==
    /\ sreqPc = "wait"
    /\ Receives(serverClosed)
    /\ sreqPc' = "close"
    /\ UNCHANGED <<c2sPc, s2cPc, creqPc, clientClosed, serverClosed, proxyChanCloses,
                   clientChanCloses, copyTargetCloses>>

\* _ = clientChan.Close()
SreqCloseClientChan ==
    /\ sreqPc = "close"
    /\ sreqPc' = "done"
    /\ clientChanCloses' = clientChanCloses + 1
    /\ UNCHANGED <<c2sPc, s2cPc, creqPc, clientClosed, serverClosed, proxyChanCloses,
                   copyTargetCloses>>

\* if copyTarget != proxyChan is false: nothing more to close
CreqSkipTarget ==
    /\ creqPc = "closeTarget"
    /\ creqPc' = "done"
    /\ UNCHANGED <<c2sPc, s2cPc, sreqPc, clientClosed, serverClosed, proxyChanCloses,
                   clientChanCloses, copyTargetCloses>>

\* IoSwitch.Close with no refractor enabled: passthrough.Close(), one more
\* Close call on the server-side channel
TargetPassthroughClose ==
    /\ creqPc = "closing"
    /\ creqPc' = "forwarded"
    /\ proxyChanCloses' = proxyChanCloses + 1
    /\ UNCHANGED <<c2sPc, s2cPc, sreqPc, clientClosed, serverClosed, clientChanCloses,
                   copyTargetCloses>>

\* the Close calls a Close of the Interposer's upstream passes on to the
\* server-side channel: one when the upstream is the channel; with a
\* RingDelayer in between one, or none when the ring already terminated
UpstreamCloseCalls(again) ==
    IF fakeDelay = 0 THEN {1} ELSE IF again THEN {0} ELSE {0, 1}

\* IoSwitch.Close with the Interposer enabled: Interposer.Close, whose
\* Asynk.Close closes the Interposer's upstream
TargetInterposerClose ==
    /\ ~noPrediction
    /\ creqPc = "closing"
    /\ creqPc' = "deferred"
    /\ \E k \in UpstreamCloseCalls(FALSE) : proxyChanCloses' = proxyChanCloses + k
    /\ UNCHANGED <<c2sPc, s2cPc, sreqPc, clientClosed, serverClosed, clientChanCloses,
                   copyTargetCloses>>

\* Interposer.Close: defer func() { _ = i.upstream.Close() }()
TargetDeferredClose ==
    /\ creqPc = "deferred"
    /\ creqPc' = "forwarded"
    /\ \E k \in UpstreamCloseCalls(TRUE) : proxyChanCloses' = proxyChanCloses + k
    /\ UNCHANGED <<c2sPc, s2cPc, sreqPc, clientClosed, serverClosed, clientChanCloses,
                   copyTargetCloses>>

TdC2sCopyEnds == C2sCopyEnds /\ UNCHANGED exceptTear
TdC2sCloseWrite == C2sCloseWrite /\ UNCHANGED exceptTear
TdC2sSignal == C2sSignal /\ UNCHANGED exceptTear
TdS2cCopyEnds == S2cCopyEnds /\ UNCHANGED exceptTear
TdS2cCloseWrite == S2cCloseWrite /\ UNCHANGED exceptTear
TdS2cSignal == S2cSignal /\ UNCHANGED exceptTear
TdCreqEnds == CreqEnds /\ UNCHANGED exceptTear
TdCreqWait == CreqWait /\ UNCHANGED exceptTear
TdCreqCloseProxyChan == CreqCloseProxyChan /\ UNCHANGED exceptTear
TdCreqCloseTarget == Wrapped /\ CreqCloseTarget /\ UNCHANGED exceptTear
TdCreqSkipTarget == ~Wrapped /\ CreqSkipTarget /\ UNCHANGED exceptTear
TdTargetPassthroughClose == TargetPassthroughClose /\ UNCHANGED exceptTear
TdTargetInterposerClose == TargetInterposerClose /\ UNCHANGED exceptTear
TdTargetDeferredClose == TargetDeferredClose /\ UNCHANGED exceptTear
TdCreqDone == creqPc = "forwarded" /\ CreqDone /\ UNCHANGED exceptTear
TdSreqEnds == SreqEnds /\ UNCHANGED exceptTear
TdSreqWait == SreqWait /\ UNCHANGED exceptTear
TdSreqCloseClientChan == SreqCloseClientChan /\ UNCHANGED exceptTear

NextTeardown ==
    \/ TdC2sCopyEnds
    \/ TdC2sCloseWrite
    \/ TdC2sSignal
    \/ TdS2cCopyEnds
    \/ TdS2cCloseWrite
    \/ TdS2cSignal
    \/ TdCreqEnds
    \/ TdCreqWait
    \/ TdCreqCloseProxyChan
    \/ TdCreqCloseTarget
    \/ TdCreqSkipTarget
    \/ TdTargetPassthroughClose
    \/ TdTargetInterposerClose
    \/ TdTargetDeferredClose
    \/ TdCreqDone
    \/ TdSreqEnds
    \/ TdSreqWait
    \/ TdSreqCloseClientChan

SpecTeardown == InitChan /\ [][NextTeardown]_vars

\* a Close call reaches the server-side channel or the replacement in this
\* step
ServerSideCloseCalled ==
    proxyChanCloses' > proxyChanCloses \/ copyTargetCloses' > copyTargetCloses

\* a Close call reaches the client-side channel in this step
ClientSideCloseCalled == clientChanCloses' > clientChanCloses

\* the server side is closed only after the client's request stream ended
\* and the client-to-server copy completed, the client side only after the
\* server's request stream ended and the server-to-client copy completed
ClosedInOrder ==
    /\ [][ServerSideCloseCalled => (creqPc # "reqs" /\ c2sPc = "done")]_vars
    /\ [][ClientSideCloseCalled => (sreqPc # "reqs" /\ s2cPc = "done")]_vars

FurtherCloseByReplacement ==
    (proxyChanCloses >= 1 /\ proxyChanCloses' > proxyChanCloses) =>
        creqPc \in {"closing", "deferred"}

C38_FailedOpenOnlyRejects ==
    /\ ~agentPanic
    /\ \A k \in 1..MaxAgentChans :
          agent[k].st = "refused" =>
             /\ agent[k].reason = "open failed"
             /\ agent[k].acts = {}

(***************************************************************************)
(* SpecAttempts: RunProxy's accept loop with several clients.  The loop    *)
(* runs one handshake at a time; every invocation of the keyboard-         *)
(* interactive callback starts a dial goroutine of its own, and all of     *)
(* them assign the one variable proxyConn and send on the one channel      *)
(* configOpts.ExtraQuestions.                                              *)
(***************************************************************************)
\* the values of var proxyConn *ssh.Client: 0 is nil, d the connection the dial
\* of attempt d returned
NilConn == 0
\* the attempt whose handshake the accept loop is in
Handshaking(a) == acceptPc = "handshake" /\ attempt = a
\* the function literal's return ended the authentication attempt
AttemptEnded(a) == atCb[a] = "done"

\* for { conn, err := listener.Accept(); ... ssh.NewServerConn(conn, config)
AtAccept ==
    /\ acceptPc = "accept"
    /\ attempt < MaxAttempts
    /\ attempt' = attempt + 1
    /\ acceptPc' = "handshake"
    /\ UNCHANGED <<proxyConn, atDial, atConnErr, atEstablished, atCb, atRet, atAsking,
                   atOffered, shown, sessionConn>>
    /\ UNCHANGED exceptAttempt

\* KeyboardInteractiveCallback: established := make(chan ...); go func() {
\* proxyConn, connErr = ssh.Dial(...) ... }(); then the select loop, or
\* <-established without ExtraQuestions
AtCbStart(a) ==
    /\ Handshaking(a)
    /\ atCb[a] = "idle"
    /\ atDial' = [atDial EXCEPT ![a] = "running"]
    /\ atCb' = [atCb EXCEPT ![a] = IF extraQuestions THEN "select" ELSE "wait"]
    /\ UNCHANGED <<proxyConn, acceptPc, attempt, atConnErr, atEstablished, atRet,
                   atAsking, atOffered, shown, sessionConn>>
    /\ UNCHANGED exceptAttempt

\* main.go: an auth method of the dial sends on the unbuffered extraQuestions
\* and stays in the send until some callback receives
AtDialOffer(d) ==
    /\ extraQuestions
    /\ atDial[d] = "running"
    /\ atOffered[d] < MaxQuestions
    /\ atDial' = [atDial EXCEPT ![d] = "offering"]
    /\ atOffered' = [atOffered EXCEPT ![d] = @ + 1]
    /\ UNCHANGED <<proxyConn, acceptPc, attempt, atConnErr, atEstablished, atCb, atRet,
                   atAsking, shown, sessionConn>>
    /\ UNCHANGED exceptAttempt

\* what ssh.Dial's first result is: the new client, or nil with an error
DialedConn(d, ok) == IF ok THEN d ELSE NilConn

\* dial goroutine: proxyConn, connErr = ssh.Dial(...): proxyConn is RunProxy's
\* variable, connErr the callback invocation's own
AtDialReturn(d, ok) ==
    /\ atDial[d] = "running"
    /\ proxyConn' = DialedConn(d, ok)
    /\ atConnErr' = [atConnErr EXCEPT ![d] = ~ok]
    /\ atDial' = [atDial EXCEPT ![d] = "assigned"]
    /\ UNCHANGED <<acceptPc, attempt, atEstablished, atCb, atRet, atAsking, atOffered,
                   shown, sessionConn>>
    /\ UNCHANGED exceptAttempt

\* deferredSigner.Sign returned force's error into ssh.Dial.  The ssh
\* library is not part of the repository: the versions of the time give the
\* error up as the result of Dial, later ones go on to the auth methods left
AtDialSignError(d, goesOn) ==
    /\ atDial[d] = "signerr"
    /\ IF goesOn
       THEN /\ atDial' = [atDial EXCEPT ![d] = "running"]
            /\ UNCHANGED <<proxyConn, atConnErr>>
       ELSE /\ proxyConn' = DialedConn(d, FALSE)
            /\ atConnErr' = [atConnErr EXCEPT ![d] = TRUE]
            /\ atDial' = [atDial EXCEPT ![d] = "assigned"]
    /\ UNCHANGED <<acceptPc, attempt, atEstablished, atCb, atRet, atAsking, atOffered,
                   shown, sessionConn>>
    /\ UNCHANGED exceptAttempt

\* dial goroutine: close(established)
AtDialClose(d) ==
    /\ atDial[d] = "assigned"
    /\ atEstablished' = [atEstablished EXCEPT ![d] = TRUE]
    /\ atDial' = [atDial EXCEPT ![d] = "done"]
    /\ UNCHANGED <<proxyConn, acceptPc, attempt, atConnErr, atCb, atRet, atAsking,
                   atOffered, shown, sessionConn>>
    /\ UNCHANGED exceptAttempt

\* callback without ExtraQuestions: <-established
AtCbWait(a) ==
    /\ atCb[a] = "wait"
    /\ atEstablished[a]
    /\ atCb' = [atCb EXCEPT ![a] = "ret"]
    /\ UNCHANGED <<proxyConn, acceptPc, attempt, atDial, atConnErr, atEstablished, atRet,
                   atAsking, atOffered, shown, sessionConn>>
    /\ UNCHANGED exceptAttempt

\* the senders a receive on configOpts.ExtraQuestions can complete with: the
\* channel is one for the whole proxy, so any dial that is in its send
Senders(a) == {d \in Attempts : atDial[d] = "offering"}

\* callback, select: case question := <-configOpts.ExtraQuestions: asked =
\* true and challenge(user, question.Message, ...) presents it to this client
AtCbReceive(a, d) ==
    /\ atCb[a] = "select"
    /\ d \in Senders(a)
    /\ atDial' = [atDial EXCEPT ![d] = "awaiting"]
    /\ atCb' = [atCb EXCEPT ![a] = "asking"]
    /\ atAsking' = [atAsking EXCEPT ![a] = d]
    /\ shown' = shown \cup {<<d, a>>}
    /\ UNCHANGED <<proxyConn, acceptPc, attempt, atConnErr, atEstablished, atRet,
                   atOffered, sessionConn>>
    /\ UNCHANGED exceptAttempt

\* callback: challenge returned.  An error or a wrong number of answers
\* returns without calling OnAnswer, so the auth method stays in its receive
\* of the answer; an accepted answer lets the auth method go on inside
\* ssh.Dial; a rejected one (the passphrase did not decode the key) makes
\* the deferred signer's force return the error, and the callback returns
AtCbAnswer(a, o) ==
    /\ atCb[a] = "asking"
    /\ atDial' = IF o \in {"err", "count"}
                 THEN atDial
                 ELSE [atDial EXCEPT ![atAsking[a]] =
                                        IF o = "right" THEN "running" ELSE "signerr"]
    /\ atCb' = [atCb EXCEPT ![a] = IF o = "right" THEN "chkerr" ELSE "done"]
    /\ atRet' = [atRet EXCEPT ![a] = IF o = "right" THEN @ ELSE "error"]
    /\ atAsking' = [atAsking EXCEPT ![a] = 0]
    /\ UNCHANGED <<proxyConn, acceptPc, attempt, atConnErr, atEstablished, atOffered,
                   shown, sessionConn>>
    /\ UNCHANGED exceptAttempt

\* callback, after an accepted answer: if connErr != nil { break loop }
AtCbCheckConnErr(a) ==
    /\ atCb[a] = "chkerr"
    /\ atCb' = [atCb EXCEPT ![a] = IF atConnErr[a] THEN "ret" ELSE "select"]
    /\ UNCHANGED <<proxyConn, acceptPc, attempt, atDial, atConnErr, atEstablished, atRet,
                   atAsking, atOffered, shown, sessionConn>>
    /\ UNCHANGED exceptAttempt

\* callback, select: case <-established: break loop
AtCbEstablished(a) ==
    /\ atCb[a] = "select"
    /\ atEstablished[a]
    /\ atCb' = [atCb EXCEPT ![a] = "ret"]
    /\ UNCHANGED <<proxyConn, acceptPc, attempt, atDial, atConnErr, atEstablished, atRet,
                   atAsking, atOffered, shown, sessionConn>>
    /\ UNCHANGED exceptAttempt

\* callback: the trailing challenge carries no question; return nil, connErr
AtCbReturn(a) ==
    /\ atCb[a] = "ret"
    /\ atCb' = [atCb EXCEPT ![a] = "done"]
    /\ atRet' = [atRet EXCEPT ![a] = CallbackResult(IF atConnErr[a] THEN "err" ELSE "nil")]
    /\ UNCHANGED <<proxyConn, acceptPc, attempt, atDial, atConnErr, atEstablished,
                   atAsking, atOffered, shown, sessionConn>>
    /\ UNCHANGED exceptAttempt

\* accept loop: ssh.NewServerConn returned; if err != nil { continue }.  It
\* fails when the callback returned an error and when the client left
AtNewServerConn(ok) ==
    /\ acceptPc = "handshake"
    /\ atCb[attempt] \in {"idle", "done"}
    /\ ok => atRet[attempt] = "success"
    /\ acceptPc' = IF ok THEN "serve" ELSE "accept"
    /\ UNCHANGED <<proxyConn, attempt, atDial, atConnErr, atEstablished, atCb, atRet,
                   atAsking, atOffered, shown, sessionConn>>
    /\ UNCHANGED exceptAttempt

\* accept loop: go func(proxyConn *ssh.Client, ...) {...}(proxyConn, sshConn,
\* chans, reqs): the session goroutine gets the value proxyConn has now
AtServe ==
    /\ acceptPc = "serve"
    /\ sessionConn' = [sessionConn EXCEPT ![attempt] = proxyConn]
    /\ acceptPc' = "accept"
    /\ UNCHANGED <<proxyConn, attempt, atDial, atConnErr, atEstablished, atCb, atRet,
                   atAsking, atOffered, shown>>
    /\ UNCHANGED exceptAttempt

InitAttempts ==
    /\ noPrediction = FALSE
    /\ fakeDelay = 0
    /\ chanType = "session"
    /\ ChanRest
    /\ EpochIdle
    /\ ReadIdle
    /\ AsynkIdle
    /\ TearIdle
    /\ LockIdle
    /\ RingIdle
    /\ SwitchIdle
    /\ CodecIdle
    /\ reportAuthErr = FALSE
    /\ blockAgent = FALSE
    /\ extraQuestions \in BOOLEAN
    /\ ProxyRest
    /\ AttemptIdle

\* the steps of the proxy's own goroutines
AttemptsRun ==
    \/ \E a \in Attempts : AtCbStart(a)
    \/ \E d \in Attempts : AtDialOffer(d)
    \/ \E d \in Attempts, ok \in BOOLEAN : AtDialReturn(d, ok)
    \/ \E d \in Attempts, goesOn \in BOOLEAN : AtDialSignError(d, goesOn)
    \/ \E d \in Attempts : AtDialClose(d)
    \/ \E a \in Attempts : AtCbWait(a)
    \/ \E a \in Attempts, d \in Attempts : AtCbReceive(a, d)
    \/ \E a \in Attempts, o \in ChallengeOutcomes : AtCbAnswer(a, o)
    \/ \E a \in Attempts : AtCbCheckConnErr(a)
    \/ \E a \in Attempts : AtCbEstablished(a)
    \/ \E a \in Attempts : AtCbReturn(a)
    \/ \E ok \in BOOLEAN : AtNewServerConn(ok)
    \/ AtServe

NextAttempts ==
    \/ AtAccept
    \/ AttemptsRun

\* every goroutine of the proxy keeps running; whether another client
\* connects is up to the clients
SpecAttempts == InitAttempts /\ [][NextAttempts]_vars /\ WF_attemptVars(AttemptsRun)

\* C39: each accepted client session is bound to the target connection dialed
\* during that same client's authentication, in every interleaving of several
\* clients' handshakes, failed and abandoned ones included
C39_SessionBoundToOwnDial ==
    \A a \in Attempts : sessionConn[a] # -1 => sessionConn[a] = a

\* the dial is inside an auth method's question: in the send on
\* extraQuestions, or in the receive of the answer that follows it
InQuestion(d) == atDial[d] \in {"offering", "awaiting"}

\* C40: a supplementary question is presented only to the client whose own
\* attempt started the dial that produced it, one question at a time, and no
\* dial stays blocked forever in a question it offers once its attempt has
\* ended
C40_QuestionsOnlyToOwnClient ==
    /\ [](\A p \in shown : p[1] = p[2])
    /\ [](Cardinality({a \in Attempts : atCb[a] = "asking"}) <= 1)
    /\ \A d \in Attempts : (InQuestion(d) /\ AttemptEnded(d)) ~> ~InQuestion(d)

====
